---- MODULE Spec2Model ----
(***************************************************************************)
(* Rating ledger and approval engine of whoishavingthemostfun              *)
(* (src/code/update.py, src/code/config.py, src/server.py).                *)
(*                                                                         *)
(* The CSV files under database/ are the state.  A file is a record        *)
(* [exists, rows]; rows holds the data rows in storage order, the header   *)
(* line is implied by exists.  Numbers are kept as numbers; a player name   *)
(* is kept as the text written and parsed by read_csv_cell where the code  *)
(* reads it back with pd.read_csv.                                         *)
(*                                                                         *)
(* Numbers.  Python floats are carried in fixed point: a rating and a      *)
(* rating change are integers in units of 1/RScale point, a probability    *)
(* and a score are integers in units of 1/PScale.  RScale = PScale, so     *)
(* (score - probability) * K is exact in rating units.  10^(x/400) is      *)
(* evaluated at whole rating points from the table Pow10Tab.               *)
(*                                                                         *)
(* Time.  A timestamp is an integer number of clock ticks (the code's      *)
(* second-resolution strings); utc is datetime.utcnow().                   *)
(***************************************************************************)
EXTENDS Integers, Sequences, FiniteSets, TLC

(***************************************************************************)
(* Bounds of the model                                                     *)
(***************************************************************************)
MaxResults == 2
MaxPending == 3
MaxUtc == 1
MaxDeleted == 1
MaxComments == 2

(***************************************************************************)
(* Scales of the fixed-point representation and sentinels                  *)
(***************************************************************************)
PScale == 1000
RScale == 1000
TabScale == 100000
NoneTs == -1
BeginningOfTime == -2
NA == -1000000
Hour == 2
BstEnd == 1

Teams == {"", "teamA"}
Games == {"chess", "pingpong", "backgammon"}
Players == {"alice", "bob", "carol", "null", "nan"}
ResultFormats == {"1-0", "0-1", "1/2-1/2"}

(***************************************************************************)
(* Files                                                                   *)
(***************************************************************************)
Absent == [exists |-> FALSE, rows |-> <<>>]

File(rows) == [exists |-> TRUE, rows |-> rows]

Last(s) == s[Len(s)]

ButLast(s) == SubSeq(s, 1, Len(s) - 1)

(***************************************************************************)
(* Text values of the comments column.  fmt = "str" is plain text (items   *)
(* is empty for the empty string, else the one pair <<text, "">>), fmt =   *)
(* "list" is the text of a Python list literal; its element                *)
(* <<comment, name>> is the string '"comment" - name'.                     *)
(***************************************************************************)
EmptyStr == [fmt |-> "str", items |-> <<>>]

PlainStr(text) == IF text = "" THEN EmptyStr ELSE [fmt |-> "str", items |-> << <<text, "">> >>]

ListStr(items) == [fmt |-> "list", items |-> items]

(***************************************************************************)
(* Arithmetic helpers                                                      *)
(***************************************************************************)
Abs(n) == IF n < 0 THEN -n ELSE n

Min(a, b) == IF a < b THEN a ELSE b

Max(a, b) == IF a > b THEN a ELSE b

\* n / d rounded to the nearest integer, d > 0, n >= 0
RoundDiv(n, d) == (2 * n + d) \div (2 * d)

\* Python round(x) of x = n / d: nearest integer, ties to the even one
RoundHalfEven(n, d) ==
    LET q == n \div d
        r == n % d
    IN  IF 2 * r < d THEN q
        ELSE IF 2 * r > d THEN q + 1
        ELSE IF q % 2 = 0 THEN q ELSE q + 1

\* Python int(x) of x = n / d: truncation toward zero
TruncDiv(n, d) == IF n >= 0 THEN n \div d ELSE -((-n) \div d)

RECURSIVE Pow10(_)
Pow10(q) == IF q = 0 THEN 1 ELSE 10 * Pow10(q - 1)

\* Pow10Tab[r + 1] = 10^(r/400) * TabScale, r = 0..399
Pow10Tab == <<
    100000, 100577, 101158, 101742, 102329, 102920, 103514, 104112, 104713, 105317,
    105925, 106537, 107152, 107771, 108393, 109018, 109648, 110281, 110917, 111558,
    112202, 112850, 113501, 114156, 114815, 115478, 116145, 116815, 117490, 118168,
    118850, 119536, 120226, 120921, 121619, 122321, 123027, 123737, 124451, 125170,
    125893, 126619, 127350, 128086, 128825, 129569, 130317, 131069, 131826, 132587,
    133352, 134122, 134896, 135675, 136458, 137246, 138038, 138835, 139637, 140443,
    141254, 142069, 142889, 143714, 144544, 145378, 146218, 147062, 147911, 148765,
    149624, 150487, 151356, 152230, 153109, 153993, 154882, 155776, 156675, 157580,
    158489, 159404, 160325, 161250, 162181, 163117, 164059, 165006, 165959, 166917,
    167880, 168850, 169824, 170805, 171791, 172783, 173780, 174783, 175792, 176807,
    177828, 178855, 179887, 180926, 181970, 183021, 184077, 185140, 186209, 187284,
    188365, 189452, 190546, 191646, 192752, 193865, 194984, 196110, 197242, 198381,
    199526, 200678, 201837, 203002, 204174, 205353, 206538, 207730, 208930, 210136,
    211349, 212569, 213796, 215030, 216272, 217520, 218776, 220039, 221309, 222587,
    223872, 225165, 226464, 227772, 229087, 230409, 231739, 233077, 234423, 235776,
    237137, 238506, 239883, 241268, 242661, 244062, 245471, 246888, 248313, 249747,
    251189, 252639, 254097, 255564, 257040, 258523, 260016, 261517, 263027, 264545,
    266073, 267609, 269153, 270707, 272270, 273842, 275423, 277013, 278612, 280221,
    281838, 283465, 285102, 286748, 288403, 290068, 291743, 293427, 295121, 296825,
    298538, 300262, 301995, 303739, 305492, 307256, 309030, 310814, 312608, 314413,
    316228, 318053, 319890, 321736, 323594, 325462, 327341, 329230, 331131, 333043,
    334965, 336899, 338844, 340800, 342768, 344747, 346737, 348739, 350752, 352777,
    354813, 356862, 358922, 360994, 363078, 365174, 367282, 369403, 371535, 373680,
    375837, 378007, 380189, 382384, 384592, 386812, 389045, 391291, 393550, 395822,
    398107, 400405, 402717, 405042, 407380, 409732, 412098, 414477, 416869, 419276,
    421697, 424131, 426580, 429042, 431519, 434010, 436516, 439036, 441570, 444120,
    446684, 449262, 451856, 454465, 457088, 459727, 462381, 465050, 467735, 470435,
    473151, 475883, 478630, 481393, 484172, 486968, 489779, 492606, 495450, 498310,
    501187, 504081, 506991, 509918, 512861, 515822, 518800, 521795, 524807, 527837,
    530884, 533949, 537032, 540132, 543250, 546387, 549541, 552713, 555904, 559114,
    562341, 565588, 568853, 572137, 575440, 578762, 582103, 585464, 588844, 592243,
    595662, 599101, 602560, 606038, 609537, 613056, 616595, 620155, 623735, 627336,
    630957, 634600, 638263, 641948, 645654, 649382, 653131, 656901, 660693, 664508,
    668344, 672202, 676083, 679986, 683912, 687860, 691831, 695825, 699842, 703882,
    707946, 712033, 716143, 720278, 724436, 728618, 732825, 737055, 741310, 745590,
    749894, 754223, 758578, 762957, 767361, 771792, 776247, 780728, 785236, 789769,
    794328, 798914, 803526, 808165, 812831, 817523, 822243, 826990, 831764, 836566,
    841395, 846253, 851138, 856052, 860994, 865964, 870964, 875992, 881049, 886135,
    891251, 896396, 901571, 906776, 912011, 917276, 922571, 927897, 933254, 938642,
    944061, 949511, 954993, 960506, 966051, 971628, 977237, 982879, 988553, 994260
>>

(***************************************************************************)
(* update.py: calculate_elo_probability                                    *)
(* 1 / (1 + 10^((rating_b - rating_a) / 400)), in units of 1/PScale.       *)
(***************************************************************************)
\* the probability computed from the size of the rating gap alone
calculate_elo_probability_unsigned(rating_a, rating_b) ==
    LET d == rating_b - rating_a
        e == RoundDiv(Abs(d), RScale)
        q == e \div 400
        r == e % 400
        m == IF q > 5 THEN 0 ELSE TabScale \div Pow10(q)
        t == Pow10Tab[r + 1]
    IN  RoundDiv(PScale * m, m + t)

calculate_elo_probability(rating_a, rating_b) ==
    LET d == rating_b - rating_a
        e == RoundDiv(Abs(d), RScale)
        q == e \div 400
        r == e % 400
        m == IF q > 5 THEN 0 ELSE TabScale \div Pow10(q)
        t == Pow10Tab[r + 1]
    IN  IF d >= 0 THEN RoundDiv(PScale * m, m + t)
                  ELSE RoundDiv(PScale * t, t + m)

(***************************************************************************)
(* update.py: update (the legacy update, used by main.py)                  *)
(* Ratings in 1/RScale, score in 1/PScale; the two new ratings come back   *)
(* as whole numbers (Python round), the probability in 1/PScale.           *)
(***************************************************************************)
\* a change of magnitude below one point and not zero becomes one point
\* a variant of the clamp that applies the change as computed
ClampChange_off(rating_change) == rating_change

ClampChange(rating_change) ==
    IF Abs(rating_change) < RScale /\ rating_change # 0
    THEN (IF rating_change < 0 THEN -RScale ELSE RScale)
    ELSE rating_change

\* the update with player1's score credited to player2 as well
update_same_score(rating1, rating2, score, K) ==
    LET prob_of_1_winning == calculate_elo_probability(rating1, rating2)
        prob_of_2_winning == calculate_elo_probability(rating2, rating1)
        rating_change1 == ClampChange((score - prob_of_1_winning) * K)
        rating_change2 == ClampChange((score - prob_of_2_winning) * K)
    IN  <<RoundHalfEven(rating1 + rating_change1, RScale),
          RoundHalfEven(rating2 + rating_change2, RScale),
          prob_of_1_winning>>

update(rating1, rating2, score, K) ==
    LET score1 == score
        score2 == PScale - score
        prob_of_1_winning == calculate_elo_probability(rating1, rating2)
        prob_of_2_winning == calculate_elo_probability(rating2, rating1)
        rating_change1 == ClampChange((score1 - prob_of_1_winning) * K)
        rating_change2 == ClampChange((score2 - prob_of_2_winning) * K)
        newRating1 == rating1 + rating_change1
        newRating2 == rating2 + rating_change2
    IN  <<RoundHalfEven(newRating1, RScale), RoundHalfEven(newRating2, RScale),
          prob_of_1_winning>>

(***************************************************************************)
(* Cells of the CSV files.  A file keeps the text that was written; what    *)
(* pd.read_csv hands back is the parsed cell.                               *)
(***************************************************************************)
\* the missing value of pandas (float nan); no name is spelled like this
NaN == "<NaN>"

\* cell spellings pd.read_csv parses as missing (keep_default_na), among the
\* names add_player accepts (lower case, letters, digits, underscores) and ""
NaValues == {"", "nan", "null"}

\* pd.read_csv: a cell of a text column
read_csv_cell(text) == IF text \in NaValues THEN NaN ELSE text

\* DataFrame.to_csv: a missing value is written as an empty cell
to_csv_cell(value) == IF value = NaN THEN "" ELSE value

\* f'{player}': the missing value formats as nan
FStr(value) == IF value = NaN THEN "nan" ELSE value

\* Python ==: nan is equal to nothing, itself included
PyEq(a, b) == a # NaN /\ b # NaN /\ a = b

\* a row read by pd.read_csv and written back by to_csv
rewrite_row(row) ==
    [row EXCEPT !.player1 = to_csv_cell(read_csv_cell(@)),
                !.player2 = to_csv_cell(read_csv_cell(@))]

RECURSIVE RewriteRows(_)
RewriteRows(rows) ==
    IF rows = <<>> THEN <<>>
    ELSE <<rewrite_row(Head(rows))>> \o RewriteRows(Tail(rows))

(***************************************************************************)
(* The database: db = [ledger, results, pending, deleted]                  *)
(*   ledger[<<team, game, player>>]  database/[team/]game/player.csv       *)
(*   results[team]                   database/[team/]results.csv           *)
(*   pending[team]                   database/[team/]pending_results.csv   *)
(*   deleted[team]                   database/[team/]deleted.csv           *)
(* team = "" is team=None, the main database.                              *)
(***************************************************************************)
\* database/{game}/{player_name}.csv with game = team and player_name =
\* 'deleted' is the path database/{team}/deleted.csv
DeletedAlias(team) == <<"", team, "deleted">>

AliasKeys == {DeletedAlias(t) : t \in Teams \ {""}}

LedgerKeys == (Teams \X Games \X Players) \cup AliasKeys

\* uk_time: utcnow plus one hour while the month is March..October
UkTime(now) == IF now < BstEnd THEN now + Hour ELSE now

\* config.py: GAME_CONSTANTS and get_k_factor
Lower(game) ==
    CASE game \in {"Chess", "CHESS"} -> "chess"
      [] game \in {"PingPong", "PINGPONG"} -> "pingpong"
      [] game \in {"Backgammon", "BACKGAMMON"} -> "backgammon"
      [] game = "INVALID" -> "invalid"
      [] OTHER -> game

\* game=None; no game is spelled like this
NoneGame == "<None>"

\* a variant of get_k_factor that looks the name up as it is spelled
get_k_factor_as_spelled(game) ==
    CASE game = "chess" -> 40
      [] game = "pingpong" -> 40
      [] game = "backgammon" -> 10
      [] OTHER -> 40

get_k_factor(game) ==
    LET game_key == Lower(IF game = NoneGame THEN "" ELSE game)
    IN  CASE game_key = "chess" -> 40
          [] game_key = "pingpong" -> 40
          [] game_key = "backgammon" -> 10
          [] OTHER -> 40

\* update.py: count_player_games
count_player_games(db, player, game, team) ==
    LET f == db.ledger[<<team, game, FStr(player)>>]
    IN  IF ~f.exists THEN 0 ELSE Max(0, Len(f.rows) - 1)

\* the reduced K-factor starting one game late
get_adjusted_k_factor_late(db, player, game, team) ==
    LET base_k_factor == get_k_factor(game)
        games_played == count_player_games(db, player, game, team)
    IN  IF games_played > 20 THEN Min(20, base_k_factor) ELSE base_k_factor

\* update.py: get_adjusted_k_factor
get_adjusted_k_factor(db, player, game, team) ==
    LET base_k_factor == get_k_factor(game)
        games_played == count_player_games(db, player, game, team)
    IN  IF games_played >= 20 THEN Min(20, base_k_factor) ELSE base_k_factor

\* a missing player read as a new player with the default rating
read_ratings_default(db, player1, player2, game, team) ==
    LET f1 == db.ledger[<<team, game, FStr(player1)>>]
        f2 == db.ledger[<<team, game, FStr(player2)>>]
    IN  [ok |-> TRUE,
         rating1 |-> IF f1.exists THEN Last(f1.rows).rating ELSE 1200 * RScale,
         rating2 |-> IF f2.exists THEN Last(f2.rows).rating ELSE 1200 * RScale]

\* update.py: read_ratings; pd.read_csv raises when a file is missing
read_ratings(db, player1, player2, game, team) ==
    LET f1 == db.ledger[<<team, game, FStr(player1)>>]
        f2 == db.ledger[<<team, game, FStr(player2)>>]
    IN  IF f1.exists /\ f2.exists
        THEN [ok |-> TRUE, rating1 |-> Last(f1.rows).rating, rating2 |-> Last(f2.rows).rating]
        ELSE [ok |-> FALSE, rating1 |-> 0, rating2 |-> 0]

\* the file opened with 'w': the new row replaces the history
write_new_rating_truncating(db, now, player, new_rating, opponent, result, game, colour, team, timestamp) ==
    LET ts == IF timestamp # NoneTs THEN timestamp ELSE UkTime(now)
        key == <<team, game, FStr(player)>>
        row == [rating |-> new_rating, opponent |-> opponent, result |-> result,
                colour |-> colour, timestamp |-> ts]
    IN  [db EXCEPT !.ledger[key] = File(<<row>>)]

\* update.py: write_new_rating; open(file_path, 'a') appends one row
write_new_rating(db, now, player, new_rating, opponent, result, game, colour, team, timestamp) ==
    LET ts == IF timestamp # NoneTs THEN timestamp ELSE UkTime(now)
        key == <<team, game, FStr(player)>>
        row == [rating |-> new_rating, opponent |-> opponent, result |-> result,
                colour |-> colour, timestamp |-> ts]
    IN  [db EXCEPT !.ledger[key] = File(Append(@.rows, row))]

\* a variant of make_new_player that writes the bootstrap row over an existing file
make_new_player_reset(db, player_name, game, team, starting_rating, starting_timestamp) ==
    [db EXCEPT !.ledger[<<team, game, player_name>>] =
        File(<<[rating |-> starting_rating, opponent |-> "no opponent", result |-> 0,
                colour |-> "no colour",
                timestamp |-> IF starting_timestamp # NoneTs THEN starting_timestamp
                              ELSE BeginningOfTime]>>)]

\* update.py: make_new_player; an existing file is left alone
make_new_player(db, player_name, game, team, starting_rating, starting_timestamp) ==
    LET key == <<team, game, player_name>>
        initial_ts == IF starting_timestamp # NoneTs THEN starting_timestamp ELSE BeginningOfTime
        row == [rating |-> starting_rating, opponent |-> "no opponent", result |-> 0,
                colour |-> "no colour", timestamp |-> initial_ts]
    IN  IF ~db.ledger[key].exists
        THEN [db EXCEPT !.ledger[key] = File(<<row>>)]
        ELSE db

\* update.py: delete_player
delete_player(db, player_name, game, team) ==
    LET key == <<team, game, player_name>>
    IN  IF ~db.ledger[key].exists
        THEN [db |-> db, ret |-> FALSE]
        ELSE [db |-> [db EXCEPT !.ledger[key] = Absent], ret |-> TRUE]

(***************************************************************************)
(* update.py: delete_last_entry                                            *)
(***************************************************************************)
\* the loop with no test on the number of rows
RECURSIVE delete_last_entry_unguarded(_, _, _, _)
delete_last_entry_unguarded(db, game, players, team) ==
    IF players = <<>> THEN db
    ELSE LET key == <<team, game, Head(players)>>
             df_player == db.ledger[key]
             db1 == IF ~df_player.exists THEN db
                    ELSE [db EXCEPT !.ledger[key] = File(ButLast(@.rows))]
         IN  delete_last_entry_unguarded(db1, game, Tail(players), team)

RECURSIVE delete_last_entry(_, _, _, _)
delete_last_entry(db, game, players, team) ==
    IF players = <<>> THEN db
    ELSE LET key == <<team, game, Head(players)>>
             df_player == db.ledger[key]
             db1 == IF ~df_player.exists THEN db
                    ELSE IF Len(df_player.rows) <= 1 THEN db
                    ELSE [db EXCEPT !.ledger[key] = File(ButLast(@.rows))]
         IN  delete_last_entry(db1, game, Tail(players), team)

\* int(round(change)) if change is not None else pd.NA
ChangeColumn(change) == IF change = NA THEN NA ELSE RoundHalfEven(change, RScale)

\* update.py: log_result_to_team; the file is created on first use
log_result_to_team(db, now, player1, player2, result, game, team, probability, timestamp, player1_change, player2_change, comment) ==
    LET ts == IF timestamp # NoneTs THEN timestamp ELSE UkTime(now)
        new_entry == [timestamp |-> ts, game |-> game,
                      player1 |-> to_csv_cell(player1),
                      player2 |-> to_csv_cell(player2), result |-> result,
                      probability |-> probability,
                      player1_change |-> ChangeColumn(player1_change),
                      player2_change |-> ChangeColumn(player2_change),
                      comments |-> comment]
    IN  [db EXCEPT !.results[team] = File(Append(@.rows, new_entry))]

\* update.py: log_deleted_result
log_deleted_result(db, now, player1, player2, result, game, team, probability, original_timestamp) ==
    LET new_entry == [original_timestamp |-> original_timestamp,
                      deletion_timestamp |-> UkTime(now), game |-> game,
                      player1 |-> to_csv_cell(player1),
                      player2 |-> to_csv_cell(player2), result |-> result,
                      probability |-> probability]
    IN  [db EXCEPT !.deleted[team] = File(Append(@.rows, new_entry))]

\* a variant of log_pending_result that queues even odds whatever the ratings
log_pending_result_even_odds(db, now, player1, player2, result, game, team, probability, timestamp, comment) ==
    LET new_entry == [timestamp |-> UkTime(now), game |-> game,
                      player1 |-> to_csv_cell(player1),
                      player2 |-> to_csv_cell(player2), result |-> result,
                      probability |-> PScale \div 2,
                      player1_change |-> NA, player2_change |-> NA,
                      comments |-> comment,
                      submission_timestamp |-> UkTime(now),
                      notes_to_admin |-> ""]
    IN  [db EXCEPT !.pending[team] = File(Append(@.rows, new_entry))]

\* update.py: log_pending_result
log_pending_result(db, now, player1, player2, result, game, team, probability, timestamp, comment) ==
    LET game_timestamp == IF timestamp # NoneTs THEN timestamp ELSE UkTime(now)
        new_entry == [timestamp |-> game_timestamp, game |-> game,
                      player1 |-> to_csv_cell(player1),
                      player2 |-> to_csv_cell(player2), result |-> result,
                      probability |-> probability,
                      player1_change |-> NA, player2_change |-> NA,
                      comments |-> comment,
                      submission_timestamp |-> UkTime(now),
                      notes_to_admin |-> ""]
    IN  [db EXCEPT !.pending[team] = File(Append(@.rows, new_entry))]

\* '1-0' -> 1.0, '0-1' -> 0.0, else 0.5; in units of 1/PScale
ScoreOf(result) ==
    IF result = "1-0" THEN PScale
    ELSE IF result = "0-1" THEN 0
    ELSE PScale \div 2

Error(msg) == [success |-> FALSE, error |-> msg]

\* the input checks without the comparison of the two names
InputError_no_distinct(player1, player2, result) ==
    IF player1 = "" \/ player2 = "" THEN "Both players are required"
    ELSE IF result \notin ResultFormats THEN "Invalid result format"
    ELSE ""

\* lines 991-999: the input checks of submit_game_with_charts ("" when they pass)
InputError(player1, player2, result) ==
    IF player1 = "" \/ player2 = "" THEN "Both players are required"
    ELSE IF PyEq(player1, player2) THEN "Players must be different"
    ELSE IF result \notin ResultFormats THEN "Invalid result format"
    ELSE ""

\* lines 1085-1093: the same checks in submit_game_without_charts
InputErrorReplay(player1, player2, result) ==
    IF player1 = "" \/ player2 = "" THEN "Both players are required"
    ELSE IF PyEq(player1, player2) THEN "Players must be different"
    ELSE IF result \notin ResultFormats THEN "Invalid result format"
    ELSE ""

(***************************************************************************)
(* update.py: submit_game_with_charts                                      *)
(***************************************************************************)
\* the commit with one K-factor (player1's) applied to both sides
submit_game_with_charts_one_k(db, now, player1, player2, result, game, team, timestamp, comment) ==
    IF InputError(player1, player2, result) # ""
    THEN [db |-> db, ret |-> Error(InputError(player1, player2, result))]
    ELSE
    LET score == ScoreOf(result)
        rr == read_ratings(db, player1, player2, game, team)
    IN  IF ~rr.ok THEN [db |-> db, ret |-> Error("No such file or directory")]
        ELSE
        LET rating1 == rr.rating1
            rating2 == rr.rating2
            k_factor1 == get_adjusted_k_factor(db, player1, game, team)
            expected_score1 == calculate_elo_probability(rating1, rating2)
            expected_score2 == calculate_elo_probability(rating2, rating1)
            rating_change1 == (score - expected_score1) * k_factor1
            rating_change2 == ((PScale - score) - expected_score2) * k_factor1
            probability == expected_score1
            new_rating1 == rating1 + rating_change1
            new_rating2 == rating2 + rating_change2
            db1 == write_new_rating(db, now, player1, new_rating1, player2, score,
                                    game, "white", team, timestamp)
            db2 == write_new_rating(db1, now, player2, new_rating2, player1, PScale - score,
                                    game, "black", team, timestamp)
            db3 == log_result_to_team(db2, now, player1, player2, result, game, team,
                                      probability, timestamp, rating_change1,
                                      rating_change2, comment)
        IN  [db |-> db3,
             ret |-> [success |-> TRUE, game |-> game, player1 |-> player1,
                      player2 |-> player2, result |-> result,
                      new_rating1 |-> TruncDiv(new_rating1, RScale),
                      new_rating2 |-> TruncDiv(new_rating2, RScale),
                      probability |-> probability]]

submit_game_with_charts(db, now, player1, player2, result, game, team, timestamp, comment) ==
    IF InputError(player1, player2, result) # ""
    THEN [db |-> db, ret |-> Error(InputError(player1, player2, result))]
    ELSE
    LET score == ScoreOf(result)
        rr == read_ratings(db, player1, player2, game, team)
    IN  IF ~rr.ok THEN [db |-> db, ret |-> Error("No such file or directory")]
        ELSE
        LET rating1 == rr.rating1
            rating2 == rr.rating2
            k_factor1 == get_adjusted_k_factor(db, player1, game, team)
            k_factor2 == get_adjusted_k_factor(db, player2, game, team)
            expected_score1 == calculate_elo_probability(rating1, rating2)
            expected_score2 == calculate_elo_probability(rating2, rating1)
            actual_score1 == score
            actual_score2 == PScale - score
            rating_change1 == (actual_score1 - expected_score1) * k_factor1
            rating_change2 == (actual_score2 - expected_score2) * k_factor2
            probability == expected_score1
            new_rating1 == rating1 + rating_change1
            new_rating2 == rating2 + rating_change2
            db1 == write_new_rating(db, now, player1, new_rating1, player2, score,
                                    game, "white", team, timestamp)
            db2 == write_new_rating(db1, now, player2, new_rating2, player1, PScale - score,
                                    game, "black", team, timestamp)
            db3 == log_result_to_team(db2, now, player1, player2, result, game, team,
                                      probability, timestamp, rating_change1,
                                      rating_change2, comment)
        IN  [db |-> db3,
             ret |-> [success |-> TRUE, game |-> game, player1 |-> player1,
                      player2 |-> player2, result |-> result,
                      new_rating1 |-> TruncDiv(new_rating1, RScale),
                      new_rating2 |-> TruncDiv(new_rating2, RScale),
                      probability |-> probability]]

(***************************************************************************)
(* update.py: submit_game_without_charts (the copy used by the replay)     *)
(***************************************************************************)
\* update.py: submit_game_without_charts
submit_game_without_charts(db, now, player1, player2, result, game, team, timestamp, comment) ==
    IF InputErrorReplay(player1, player2, result) # ""
    THEN [db |-> db, ret |-> Error(InputErrorReplay(player1, player2, result))]
    ELSE
    LET score == ScoreOf(result)
        rr == read_ratings(db, player1, player2, game, team)
    IN  IF ~rr.ok THEN [db |-> db, ret |-> Error("No such file or directory")]
        ELSE
        LET rating1 == rr.rating1
            rating2 == rr.rating2
            k_factor1 == get_adjusted_k_factor(db, player1, game, team)
            k_factor2 == get_adjusted_k_factor(db, player2, game, team)
            expected_score1 == calculate_elo_probability(rating1, rating2)
            expected_score2 == calculate_elo_probability(rating2, rating1)
            actual_score1 == score
            actual_score2 == PScale - score
            rating_change1 == (actual_score1 - expected_score1) * k_factor1
            rating_change2 == (actual_score2 - expected_score2) * k_factor2
            probability == expected_score1
            new_rating1 == rating1 + rating_change1
            new_rating2 == rating2 + rating_change2
            db1 == write_new_rating(db, now, player1, new_rating1, player2, score,
                                    game, "white", team, timestamp)
            db2 == write_new_rating(db1, now, player2, new_rating2, player1, PScale - score,
                                    game, "black", team, timestamp)
            db3 == log_result_to_team(db2, now, player1, player2, result, game, team,
                                      probability, timestamp, rating_change1,
                                      rating_change2, comment)
        IN  [db |-> db3,
             ret |-> [success |-> TRUE, game |-> game, player1 |-> player1,
                      player2 |-> player2, result |-> result,
                      new_rating1 |-> TruncDiv(new_rating1, RScale),
                      new_rating2 |-> TruncDiv(new_rating2, RScale),
                      probability |-> probability]]

(***************************************************************************)
(* update.py: undo_last_result                                             *)
(***************************************************************************)
\* one turn of the loop over players_to_update
UndoPlayer(acc, player, game, team) ==
    LET key == <<team, game, FStr(player)>>
        player_df == acc.db.ledger[key]
    IN  IF ~player_df.exists THEN acc
        ELSE IF Len(player_df.rows) <= 1 THEN acc
        ELSE LET last_entry == Last(player_df.rows)
             IN  [db |-> [acc.db EXCEPT !.ledger[key] = File(ButLast(@.rows))],
                  deleted_entries |-> Append(acc.deleted_entries,
                      [player |-> player, rating |-> last_entry.rating,
                       opponent |-> last_entry.opponent, result |-> last_entry.result,
                       colour |-> last_entry.colour, timestamp |-> last_entry.timestamp])]

\* a variant of undo_last_result that treats an empty results log as undone
undo_last_result_empty_ok(db, now, team) ==
    IF ~db.results[team].exists THEN [db |-> db, ret |-> Error("No results file found")]
    ELSE IF db.results[team].rows = <<>>
    THEN [db |-> [db EXCEPT !.deleted[team] = File(@.rows)],
          ret |-> [success |-> TRUE, deleted_entries |-> <<>>]]
    ELSE
    LET last_result == Last(db.results[team].rows)
        game == last_result.game
        player1 == read_csv_cell(last_result.player1)
        player2 == read_csv_cell(last_result.player2)
        db1 == log_deleted_result(db, now, player1, player2, last_result.result, game, team,
                                  last_result.probability, last_result.timestamp)
        db2 == [db1 EXCEPT !.results[team] = File(ButLast(@.rows))]
        acc1 == UndoPlayer([db |-> db2, deleted_entries |-> <<>>], player1, game, team)
        acc2 == UndoPlayer(acc1, player2, game, team)
    IN  [db |-> acc2.db,
         ret |-> [success |-> TRUE,
                  undone_result |-> [timestamp |-> last_result.timestamp, game |-> game,
                                     player1 |-> player1, player2 |-> player2,
                                     result |-> last_result.result,
                                     probability |-> last_result.probability],
                  deleted_entries |-> acc2.deleted_entries]]

undo_last_result(db, now, team) ==
    IF ~db.results[team].exists THEN [db |-> db, ret |-> Error("No results file found")]
    ELSE IF db.results[team].rows = <<>> THEN [db |-> db, ret |-> Error("No results found to undo")]
    ELSE
    LET last_result == Last(db.results[team].rows)
        game == last_result.game
        player1 == read_csv_cell(last_result.player1)
        player2 == read_csv_cell(last_result.player2)
        db1 == log_deleted_result(db, now, player1, player2, last_result.result, game, team,
                                  last_result.probability, last_result.timestamp)
        db2 == [db1 EXCEPT !.results[team] = File(ButLast(@.rows))]
        acc1 == UndoPlayer([db |-> db2, deleted_entries |-> <<>>], player1, game, team)
        acc2 == UndoPlayer(acc1, player2, game, team)
    IN  [db |-> acc2.db,
         ret |-> [success |-> TRUE,
                  undone_result |-> [timestamp |-> last_result.timestamp, game |-> game,
                                     player1 |-> player1, player2 |-> player2,
                                     result |-> last_result.result,
                                     probability |-> last_result.probability],
                  deleted_entries |-> acc2.deleted_entries]]

(***************************************************************************)
(* update.py: approve_pending_results                                      *)
(***************************************************************************)
IndexOrders(n) == {f \in [1..n -> 1..n] : \A i, j \in 1..n : i # j => f[i] # f[j]}

\* the frame replayed as stored, without sort_values
SortedFrames_unsorted(rows) == {rows}

\* df.sort_values('sort_timestamp', ascending=True): the default sort is not
\* stable, so rows with equal keys may come out in any order
SortedFrames(rows) ==
    {[i \in 1..Len(rows) |-> rows[f[i]]] : f \in
        {g \in IndexOrders(Len(rows)) :
            \A i \in 1..(Len(rows) - 1) :
                rows[g[i]].submission_timestamp <= rows[g[i + 1]].submission_timestamp}}

\* lines 515-529: copy the pending comment onto the last row of results.csv
TransferComment(db, team, row) ==
    IF row.comments # EmptyStr /\ db.results[team].exists /\ db.results[team].rows # <<>>
    THEN [db EXCEPT !.results[team].rows =
             [RewriteRows(@) EXCEPT ![Len(@)].comments = row.comments]]
    ELSE db

\* line 495: a row of the frame as iterrows hands it over
read_row(row) ==
    [row EXCEPT !.player1 = read_csv_cell(@), !.player2 = read_csv_cell(@)]

\* lines 505-512: the replay of one row; the comment is handled separately
ReplayRow(db, now, team, row) ==
    submit_game_without_charts(db, now, row.player1, row.player2, row.result,
                               row.game, team, row.timestamp, EmptyStr)

\* a variant of ApproveRow that copies the pending comment whatever the replay
\* returned
ApproveRow_always_transfer(acc, team, row, result_data) ==
    IF result_data.ret.success
    THEN [db |-> TransferComment(result_data.db, team, row),
          processed_results |->
              Append(acc.processed_results,
                     [player1 |-> row.player1, player2 |-> row.player2,
                      result |-> row.result, game |-> row.game,
                      timestamp |-> row.timestamp]),
          failed_results |-> acc.failed_results]
    ELSE [db |-> TransferComment(result_data.db, team, row),
          processed_results |-> acc.processed_results,
          failed_results |->
              Append(acc.failed_results,
                     [player1 |-> row.player1, player2 |-> row.player2,
                      result |-> row.result, game |-> row.game,
                      error |-> result_data.ret.error])]

\* lines 514-548: what one turn does with result_data, the outcome of the replay
ApproveRow(acc, team, row, result_data) ==
    IF result_data.ret.success
    THEN [db |-> TransferComment(result_data.db, team, row),
          processed_results |->
              Append(acc.processed_results,
                     [player1 |-> row.player1, player2 |-> row.player2,
                      result |-> row.result, game |-> row.game,
                      timestamp |-> row.timestamp]),
          failed_results |-> acc.failed_results]
    ELSE [db |-> result_data.db,
          processed_results |-> acc.processed_results,
          failed_results |->
              Append(acc.failed_results,
                     [player1 |-> row.player1, player2 |-> row.player2,
                      result |-> row.result, game |-> row.game,
                      error |-> result_data.ret.error])]

\* lines 495-558: the loop over df_sorted
RECURSIVE ApproveLoop(_, _, _, _, _)
ApproveLoop(acc, now, team, frame, i) ==
    IF i > Len(frame) THEN acc
    ELSE ApproveLoop(ApproveRow(acc, team, read_row(frame[i]),
                                ReplayRow(acc.db, now, team, read_row(frame[i]))),
                     now, team, frame, i + 1)

\* lines 567-575: the rows kept for retry
MatchesFailed(row, failed_results) ==
    \E k \in 1..Len(failed_results) :
        /\ PyEq(failed_results[k].player1, read_csv_cell(row.player1))
        /\ PyEq(failed_results[k].player2, read_csv_cell(row.player2))
        /\ failed_results[k].result = row.result
        /\ failed_results[k].game = row.game

RECURSIVE FilterFailed(_, _)
FilterFailed(frame, failed_results) ==
    IF frame = <<>> THEN <<>>
    ELSE IF MatchesFailed(Head(frame), failed_results)
         THEN <<rewrite_row(Head(frame))>> \o FilterFailed(Tail(frame), failed_results)
         ELSE FilterFailed(Tail(frame), failed_results)

\* the queue file left empty instead of removed
FinishApproval_empty_file(team, df_sorted, loop) ==
    [db |-> [loop.db EXCEPT !.pending[team] =
                File(FilterFailed(df_sorted, loop.failed_results))],
     ret |-> [success |-> TRUE,
              processed_count |-> Len(loop.processed_results),
              failed_count |-> Len(loop.failed_results),
              total_pending |-> Len(df_sorted),
              processed_results |-> loop.processed_results,
              failed_results |-> loop.failed_results]]

\* lines 560-592: the queue file after the loop and the summary returned
FinishApproval(team, df_sorted, loop) ==
    [db |-> IF Len(loop.failed_results) = 0
            THEN [loop.db EXCEPT !.pending[team] = Absent]
            ELSE [loop.db EXCEPT !.pending[team] =
                     File(FilterFailed(df_sorted, loop.failed_results))],
     ret |-> [success |-> TRUE,
              processed_count |-> Len(loop.processed_results),
              failed_count |-> Len(loop.failed_results),
              total_pending |-> Len(df_sorted),
              processed_results |-> loop.processed_results,
              failed_results |-> loop.failed_results]]

\* df_sorted is the frame the caller drew from SortedFrames
approve_pending_results(db, now, team, df_sorted) ==
    IF ~db.pending[team].exists
    THEN [db |-> db, ret |-> [success |-> TRUE, processed_count |-> 0]]
    ELSE IF db.pending[team].rows = <<>>
    THEN [db |-> db, ret |-> [success |-> TRUE, processed_count |-> 0]]
    ELSE FinishApproval(team, df_sorted,
             ApproveLoop([db |-> db, processed_results |-> <<>>, failed_results |-> <<>>],
                         now, team, df_sorted, 1))

(***************************************************************************)
(* server.py: submit_result / submit_result_team (submit for approval)     *)
(***************************************************************************)
\* update.py: delete_pending_result; index counts the rows of the file from 0
delete_pending_result(db, index, team) ==
    LET f == db.pending[team]
        rest == [i \in 1..(Len(f.rows) - 1) |->
                    IF i <= index THEN f.rows[i] ELSE f.rows[i + 1]]
    IN  IF ~f.exists THEN [db |-> db, ret |-> Error("No pending results file found")]
        ELSE IF f.rows = <<>>
        THEN [db |-> db, ret |-> Error("No pending results to delete")]
        ELSE IF index < 0 \/ index >= Len(f.rows)
        THEN [db |-> db, ret |-> Error("Invalid index")]
        ELSE [db |-> [db EXCEPT !.pending[team] =
                         IF rest = <<>> THEN Absent ELSE File(RewriteRows(rest))],
              ret |-> [success |-> TRUE,
                       deleted_result |->
                           [player1 |-> read_csv_cell(f.rows[index + 1].player1),
                            player2 |-> read_csv_cell(f.rows[index + 1].player2),
                            result |-> f.rows[index + 1].result,
                            game |-> f.rows[index + 1].game,
                            timestamp |-> f.rows[index + 1].timestamp],
                       remaining_count |-> Len(rest)]]

\* update.py: clear_all_pending_results
clear_all_pending_results(db, team) ==
    IF ~db.pending[team].exists
    THEN [db |-> db, ret |-> [success |-> TRUE, deleted_count |-> 0]]
    ELSE [db |-> [db EXCEPT !.pending[team] = Absent],
          ret |-> [success |-> TRUE, deleted_count |-> Len(db.pending[team].rows)]]

\* lines 1221-1235: the comments cell as a list; anything but a list literal is []
ParseComments(comments) == IF comments.fmt = "list" THEN comments.items ELSE <<>>

(***************************************************************************)
(* Timestamp texts.  A time of the model is a whole minute; the text of a  *)
(* timestamp is [fmt, tick, second]: the minute it names, the seconds it   *)
(* spells, and its format: "%S" is '%Y-%m-%d %H:%M:%S' (19 characters),    *)
(* "%f" the same with microseconds, "%M" is '%Y-%m-%d %H:%M' (16           *)
(* characters), "T" is the 19 characters of an ISO text with a T between   *)
(* date and time, which strptime rejects.                                  *)
(***************************************************************************)
\* timestamp='' or None
NoStamp == [fmt |-> "none"]

\* uk_time.strftime('%Y-%m-%d %H:%M:%S') as pd.read_csv hands it back
StampText(t) == [fmt |-> "%S", tick |-> t, second |-> 0]

\* update.py: normalize_timestamp_to_minute
normalize_timestamp_to_minute(ts) ==
    IF ts.fmt \in {"%f", "%S"} THEN [fmt |-> "%M", tick |-> ts.tick, second |-> 0]
    ELSE ts

\* a variant of add_comment_to_result that accepts every position
add_comment_to_result_any_position(db, timestamp, comment, commenter_name, team, offset, index) ==
    LET f == db.results[team]
        row_index == Len(f.rows) - 1 - offset - index
        row == IF row_index < 0 \/ row_index >= Len(f.rows) THEN Len(f.rows)
               ELSE row_index + 1
    IN  IF ~f.exists \/ f.rows = <<>> THEN [db |-> db, ret |-> [error |-> "No results found"]]
        ELSE [db |-> [db EXCEPT !.results[team] =
                         File([RewriteRows(f.rows) EXCEPT ![row].comments =
                                  ListStr(Append(@.items, <<comment, commenter_name>>))])],
              ret |-> [success |-> TRUE, comment |-> <<comment, commenter_name>>,
                       timestamp |-> f.rows[row].timestamp]]

\* a variant of add_comment_to_result that counts positions from the first row
add_comment_to_result_from_first(db, timestamp, comment, commenter_name, team, offset, index) ==
    LET f == db.results[team]
        row_index == offset + index
    IN  IF ~f.exists \/ f.rows = <<>> THEN [db |-> db, ret |-> [error |-> "No results found"]]
        ELSE IF row_index < 0 \/ row_index >= Len(f.rows)
        THEN [db |-> db, ret |-> [error |-> "Invalid result position"]]
        ELSE [db |-> [db EXCEPT !.results[team] =
                         File([RewriteRows(f.rows) EXCEPT ![row_index + 1].comments =
                                  ListStr(Append(@.items, <<comment, commenter_name>>))])],
              ret |-> [success |-> TRUE, comment |-> <<comment, commenter_name>>,
                       timestamp |-> f.rows[row_index + 1].timestamp]]

\* update.py: add_comment_to_result; offset and index count from the last row
\* of results.csv backwards
add_comment_to_result(db, timestamp, comment, commenter_name, team, offset, index) ==
    LET f == db.results[team]
        row_index == Len(f.rows) - 1 - offset - index
    IN  IF ~f.exists THEN [db |-> db, ret |-> [error |-> "No results file found"]]
        ELSE IF f.rows = <<>> THEN [db |-> db, ret |-> [error |-> "No results found"]]
        ELSE IF row_index < 0 \/ row_index >= Len(f.rows)
        THEN [db |-> db, ret |-> [error |-> "Invalid result position"]]
        ELSE IF /\ timestamp # NoStamp
                /\ normalize_timestamp_to_minute(timestamp)
                      # normalize_timestamp_to_minute(StampText(f.rows[row_index + 1].timestamp))
        THEN [db |-> db, ret |-> [error |-> "Timestamp mismatch"]]
        ELSE
        LET comments_list ==
                Append(ParseComments(f.rows[row_index + 1].comments),
                       <<comment, commenter_name>>)
        IN  [db |-> [db EXCEPT !.results[team] =
                        File([RewriteRows(f.rows) EXCEPT
                                 ![row_index + 1].comments = ListStr(comments_list)])],
             ret |-> [success |-> TRUE, comment |-> <<comment, commenter_name>>,
                      timestamp |-> f.rows[row_index + 1].timestamp]]

\* update.py: format_comment_for_storage
format_comment_for_storage(comment, commenter_name) ==
    IF comment = "" \/ commenter_name = "" THEN EmptyStr
    ELSE ListStr(<< <<comment, commenter_name>> >>)

submit_result(db, now, team, game, player1, player2, result, comment, commenter_name) ==
    IF player1 = "" \/ player2 = "" THEN [db |-> db, ret |-> Error("Both players are required")]
    ELSE IF player1 = player2 THEN [db |-> db, ret |-> Error("Players must be different")]
    ELSE IF result \notin ResultFormats THEN [db |-> db, ret |-> Error("Invalid result format")]
    ELSE IF comment # "" /\ commenter_name = ""
    THEN [db |-> db, ret |-> Error("Commenter name is required when adding a comment")]
    ELSE
    LET rr == read_ratings(db, player1, player2, game, team)
    IN  IF ~rr.ok THEN [db |-> db, ret |-> Error("Failed to submit result for approval")]
        ELSE
        LET probability == calculate_elo_probability(rr.rating1, rr.rating2)
            pending_comment == format_comment_for_storage(comment, commenter_name)
        IN  [db |-> log_pending_result(db, now, player1, player2, result, game, team,
                                       probability, NoneTs, pending_comment),
             ret |-> [success |-> TRUE, game |-> game, status |-> "pending_approval"]]

(***************************************************************************)
(* server.py: the listing of the pending queue; update.py: the admin note  *)
(***************************************************************************)
\* str.title() of the names and games of the model
Title(text) ==
    CASE text = "alice" -> "Alice" [] text = "bob" -> "Bob" [] text = "carol" -> "Carol"
      [] text = "chess" -> "Chess" [] text = "pingpong" -> "Pingpong"
      [] text = "backgammon" -> "Backgammon" [] OTHER -> text

\* server.py: format_player_name_for_display; no name of the model has an
\* underscore or a ' Q'
format_player_name_for_display(player_name) == Title(player_name)

\* df.sort_values('timestamp_sort', ascending=False): newest submission
\* first, rows with equal keys in any order
SortedFramesDescending(rows) ==
    {[i \in 1..Len(rows) |-> rows[f[i]]] : f \in
        {g \in IndexOrders(Len(rows)) :
            \A i \in 1..(Len(rows) - 1) :
                rows[g[i]].submission_timestamp >= rows[g[i + 1]].submission_timestamp}}

\* server.py: get_pending_results_main / get_pending_results_team; frame is
\* the sorted frame, drawn from SortedFramesDescending.  A name read as a
\* missing value has no replace(): the handler answers with the error
get_pending_results(db, team, offset, limit, frame) ==
    LET f == db.pending[team]
        df_paginated == SubSeq(frame, offset + 1, Min(offset + limit, Len(frame)))
    IN  IF ~f.exists \/ f.rows = <<>> THEN [results |-> <<>>, has_more |-> FALSE]
        ELSE IF \E i \in 1..Len(df_paginated) :
                   \/ read_csv_cell(df_paginated[i].player1) = NaN
                   \/ read_csv_cell(df_paginated[i].player2) = NaN
        THEN [error |-> "'float' object has no attribute 'replace'"]
        ELSE [results |->
                 [idx \in 1..Len(df_paginated) |->
                     [index |-> offset + (idx - 1),
                      timestamp |-> df_paginated[idx].timestamp,
                      game |-> Title(df_paginated[idx].game),
                      player1 |-> format_player_name_for_display(df_paginated[idx].player1),
                      player2 |-> format_player_name_for_display(df_paginated[idx].player2),
                      result |-> df_paginated[idx].result,
                      probability |-> df_paginated[idx].probability,
                      status |-> "pending",
                      submission_timestamp |-> df_paginated[idx].submission_timestamp,
                      notes_to_admin |-> df_paginated[idx].notes_to_admin,
                      comments |-> df_paginated[idx].comments]],
              has_more |-> (offset + limit) < Len(frame)]

\* update.py: add_admin_note_to_pending; index counts the rows of the file
\* from 0
add_admin_note_to_pending(db, index, note, team) ==
    LET f == db.pending[team]
    IN  IF ~f.exists THEN [db |-> db, ret |-> Error("No pending results file found")]
        ELSE IF f.rows = <<>> THEN [db |-> db, ret |-> Error("No pending results found")]
        ELSE IF index < 0 \/ index >= Len(f.rows)
        THEN [db |-> db, ret |-> Error("Invalid index")]
        ELSE
        LET current_note == read_csv_cell(f.rows[index + 1].notes_to_admin)
            new_note == IF current_note = NaN THEN note
                        ELSE current_note \o "; " \o note
        IN  [db |-> [db EXCEPT !.pending[team] =
                        File([RewriteRows(f.rows) EXCEPT
                                 ![index + 1].notes_to_admin = new_note])],
             ret |-> [success |-> TRUE,
                      result_info |->
                          [player1 |-> read_csv_cell(f.rows[index + 1].player1),
                           player2 |-> read_csv_cell(f.rows[index + 1].player2),
                           result |-> f.rows[index + 1].result,
                           game |-> f.rows[index + 1].game,
                           timestamp |-> f.rows[index + 1].timestamp],
                      note |-> note]]

(***************************************************************************)
(* main.py: the commit of the command line                                 *)
(***************************************************************************)
\* '1-0' for 1.0, '0-1' for 0.0, else '1/2-1/2'
result_str(score) ==
    IF score = PScale THEN "1-0" ELSE IF score = 0 THEN "0-1" ELSE "1/2-1/2"

\* main.py, lines 19-64: score is opt.score in units of 1/PScale; a ledger
\* that cannot be read ends the script before anything is written
main(db, now, game, player1, player2, score, team, timestamp) ==
    LET rr == read_ratings(db, player1, player2, game, team)
    IN  IF ~rr.ok THEN [db |-> db, ret |-> Error("No such file or directory")]
        ELSE
        LET rating1 == rr.rating1
            rating2 == rr.rating2
            k_factor1 == get_adjusted_k_factor(db, player1, game, team)
            k_factor2 == get_adjusted_k_factor(db, player2, game, team)
            new_rating1 == update(rating1, rating2, score, k_factor1)[1] * RScale
            probability == update(rating1, rating2, score, k_factor1)[3]
            new_rating2 == update(rating1, rating2, PScale - score, k_factor2)[2] * RScale
            db1 == write_new_rating(db, now, player1, new_rating1, player2, score,
                                    game, "white", team, timestamp)
            db2 == write_new_rating(db1, now, player2, new_rating2, player1, PScale - score,
                                    game, "black", team, timestamp)
            db3 == log_result_to_team(db2, now, player1, player2, result_str(score), game,
                                      team, probability, timestamp, NA, NA, EmptyStr)
        IN  [db |-> db3,
             ret |-> [success |-> TRUE, new_rating1 |-> new_rating1 \div RScale,
                      new_rating2 |-> new_rating2 \div RScale]]

(***************************************************************************)
(* State                                                                   *)
(***************************************************************************)
VARIABLES
    ledger,     \* the player files
    results,    \* results.csv of each team
    pending,    \* pending_results.csv of each team
    deleted,    \* deleted.csv of each team
    utc,        \* datetime.utcnow()
    ret,        \* the last call: [op, args, out]
    df,         \* approve_pending_results: the queue as read from the file
    df_sorted,  \* approve_pending_results: the queue after sort_values
    pre,        \* the database before the last successful submit_game_with_charts,
                \* kept while the calls since are that commit and the undo after it
    cap,        \* the number of results.csv and deleted.csv rows a run may reach
    proc        \* the requests being served step by step: position and locals

vars == <<ledger, results, pending, deleted, utc, ret, df, df_sorted, pre, cap, proc>>

DB == [ledger |-> ledger, results |-> results, pending |-> pending, deleted |-> deleted]

\* the files on disk after a call that went from database old to database new:
\* the ledger at DeletedAlias(t) and the deleted log of team t are one file,
\* so a write to either is a write to both
OneFile(old, new) ==
    [ledger |-> [k \in LedgerKeys |->
                    IF k \in AliasKeys /\ new.ledger[k] = old.ledger[k]
                    THEN new.deleted[k[2]] ELSE new.ledger[k]],
     results |-> new.results,
     pending |-> new.pending,
     deleted |-> [t \in Teams |->
                     IF t # "" /\ new.ledger[DeletedAlias(t)] # old.ledger[DeletedAlias(t)]
                     THEN new.ledger[DeletedAlias(t)] ELSE new.deleted[t]]]

SetDB(db) ==
    /\ ledger' = OneFile(DB, db).ledger
    /\ results' = OneFile(DB, db).results
    /\ pending' = OneFile(DB, db).pending
    /\ deleted' = OneFile(DB, db).deleted

NoPre == [set |-> FALSE]

\* no request is being served step by step
NoProc == <<>>

EmptyDB ==
    [ledger |-> [k \in LedgerKeys |-> Absent],
     results |-> [t \in Teams |-> Absent],
     pending |-> [t \in Teams |-> Absent],
     deleted |-> [t \in Teams |-> Absent]]

DefaultRating == 1200 * RScale

\* the database after make_new_player for alice, bob and null in chess
InitDB ==
    make_new_player(
        make_new_player(
            make_new_player(EmptyDB, "alice", "chess", "", DefaultRating, NoneTs),
            "bob", "chess", "", DefaultRating, NoneTs),
        "null", "chess", "", DefaultRating, NoneTs)

Init ==
    /\ ledger = InitDB.ledger
    /\ results = InitDB.results
    /\ pending = InitDB.pending
    /\ deleted = InitDB.deleted
    /\ utc = 0
    /\ ret = [op |-> "init"]
    /\ df = <<>>
    /\ df_sorted = <<>>
    /\ pre = NoPre
    /\ proc = NoProc
    /\ cap = MaxResults

(***************************************************************************)
(* Operations                                                              *)
(***************************************************************************)
SubmitImmediate(team, game, player1, player2, result, timestamp, comment) ==
    /\ Len(results[team].rows) + Len(deleted[team].rows) < cap
    /\ LET out == submit_game_with_charts(DB, utc, player1, player2, result, game,
                                          team, timestamp, comment)
       IN  /\ SetDB(out.db)
           /\ ret' = [op |-> "submit_game_with_charts",
                      args |-> [team |-> team, game |-> game, player1 |-> player1,
                                player2 |-> player2, result |-> result,
                                timestamp |-> timestamp, comment |-> comment],
                      out |-> out.ret]
           /\ pre' = IF out.ret.success
                     THEN [set |-> TRUE, undone |-> FALSE, db |-> DB, team |-> team,
                           game |-> game, player1 |-> player1, player2 |-> player2]
                     ELSE NoPre
    /\ df' = <<>>
    /\ df_sorted' = <<>>
    /\ UNCHANGED <<utc, cap, proc>>

\* python main.py --game --player1 --player2 --score [--team] [--timestamp]
CliCommit(team, game, player1, player2, score, timestamp) ==
    /\ Len(results[team].rows) + Len(deleted[team].rows) < cap
    /\ LET out == main(DB, utc, game, player1, player2, score, team, timestamp)
       IN  /\ SetDB(out.db)
           /\ ret' = [op |-> "main",
                      args |-> [team |-> team, game |-> game, player1 |-> player1,
                                player2 |-> player2, score |-> score,
                                timestamp |-> timestamp],
                      out |-> out.ret]
    /\ pre' = NoPre
    /\ df' = <<>>
    /\ df_sorted' = <<>>
    /\ UNCHANGED <<utc, cap, proc>>

UndoLast(team) ==
    /\ (results[team].exists /\ results[team].rows # <<>>)
          => Len(deleted[team].rows) < MaxDeleted
    /\ LET out == undo_last_result(DB, utc, team)
       IN  /\ SetDB(out.db)
           /\ ret' = [op |-> "undo_last_result", args |-> [team |-> team], out |-> out.ret]
    /\ pre' = IF pre.set /\ ~pre.undone /\ pre.team = team
              THEN [pre EXCEPT !.undone = TRUE]
              ELSE NoPre
    /\ df' = <<>>
    /\ df_sorted' = <<>>
    /\ UNCHANGED <<utc, cap, proc>>

MakeNewPlayer(team, game, player_name, starting_rating, starting_timestamp) ==
    /\ SetDB(make_new_player(DB, player_name, game, team, starting_rating, starting_timestamp))
    /\ ret' = [op |-> "make_new_player",
               args |-> [team |-> team, game |-> game, player_name |-> player_name,
                         starting_rating |-> starting_rating,
                         starting_timestamp |-> starting_timestamp]]
    /\ df' = <<>>
    /\ df_sorted' = <<>>
    /\ pre' = NoPre
    /\ UNCHANGED <<utc, cap, proc>>

DeleteLastEntry(team, game, players) ==
    /\ SetDB(delete_last_entry(DB, game, players, team))
    /\ ret' = [op |-> "delete_last_entry",
               args |-> [team |-> team, game |-> game, players |-> players],
               out |-> TRUE]
    /\ df' = <<>>
    /\ df_sorted' = <<>>
    /\ pre' = NoPre
    /\ UNCHANGED <<utc, cap, proc>>

DeletePlayer(team, game, player_name) ==
    /\ LET out == delete_player(DB, player_name, game, team)
       IN  /\ SetDB(out.db)
           /\ ret' = [op |-> "delete_player",
                      args |-> [team |-> team, game |-> game, player_name |-> player_name],
                      out |-> out.ret]
    /\ df' = <<>>
    /\ df_sorted' = <<>>
    /\ pre' = NoPre
    /\ UNCHANGED <<utc, cap, proc>>

SubmitForApproval(team, game, player1, player2, result, comment, commenter_name) ==
    /\ Len(pending[team].rows) + Len(results[team].rows) < MaxPending
    /\ LET out == submit_result(DB, utc, team, game, player1, player2, result,
                                comment, commenter_name)
       IN  /\ SetDB(out.db)
           /\ ret' = [op |-> "submit_result",
                      args |-> [team |-> team, game |-> game, player1 |-> player1,
                                player2 |-> player2, result |-> result],
                      out |-> out.ret]
    /\ df' = <<>>
    /\ df_sorted' = <<>>
    /\ pre' = NoPre
    /\ UNCHANGED <<utc, cap, proc>>

ApproveAll(team) ==
    /\ \E frame \in SortedFrames(pending[team].rows) :
        LET out == approve_pending_results(DB, utc, team, frame)
        IN  /\ SetDB(out.db)
            /\ ret' = [op |-> "approve_pending_results", args |-> [team |-> team],
                       out |-> out.ret]
            /\ df_sorted' = frame
    /\ df' = pending[team].rows
    /\ pre' = NoPre
    /\ UNCHANGED <<utc, cap, proc>>

LogPending(team, game, player1, player2, result, probability, timestamp) ==
    /\ Len(pending[team].rows) + Len(results[team].rows) < MaxPending
    /\ SetDB(log_pending_result(DB, utc, player1, player2, result, game, team,
                                probability, timestamp, EmptyStr))
    /\ ret' = [op |-> "log_pending_result",
               args |-> [team |-> team, game |-> game, player1 |-> player1,
                         player2 |-> player2, result |-> result,
                         probability |-> probability, timestamp |-> timestamp]]
    /\ df' = <<>>
    /\ df_sorted' = <<>>
    /\ pre' = NoPre
    /\ UNCHANGED <<utc, cap, proc>>

DeletePending(team, index) ==
    /\ LET out == delete_pending_result(DB, index, team)
       IN  /\ SetDB(out.db)
           /\ ret' = [op |-> "delete_pending_result",
                      args |-> [team |-> team, index |-> index], out |-> out.ret]
    /\ df' = <<>>
    /\ df_sorted' = <<>>
    /\ pre' = NoPre
    /\ UNCHANGED <<utc, cap, proc>>

\* GET /api/pending-results?offset=&limit=
ListPending(team, offset, limit) ==
    /\ \E frame \in SortedFramesDescending(pending[team].rows) :
          /\ ret' = [op |-> "get_pending_results",
                     args |-> [team |-> team, offset |-> offset, limit |-> limit],
                     out |-> get_pending_results(DB, team, offset, limit, frame)]
          /\ df_sorted' = frame
    /\ df' = pending[team].rows
    /\ pre' = NoPre
    /\ UNCHANGED <<ledger, results, pending, deleted, utc, cap, proc>>

\* POST /api/pending-results/<index>/admin-note; a record takes two notes at most
AddAdminNote(team, index, note) ==
    /\ \A i \in 1..Len(pending[team].rows) :
          pending[team].rows[i].notes_to_admin \in {"", note}
    /\ LET out == add_admin_note_to_pending(DB, index, note, team)
       IN  /\ SetDB(out.db)
           /\ ret' = [op |-> "add_admin_note_to_pending",
                      args |-> [team |-> team, index |-> index, note |-> note],
                      out |-> out.ret]
    /\ df' = <<>>
    /\ df_sorted' = <<>>
    /\ pre' = NoPre
    /\ UNCHANGED <<utc, cap, proc>>

ClearPending(team) ==
    /\ LET out == clear_all_pending_results(DB, team)
       IN  /\ SetDB(out.db)
           /\ ret' = [op |-> "clear_all_pending_results", args |-> [team |-> team],
                      out |-> out.ret]
    /\ df' = <<>>
    /\ df_sorted' = <<>>
    /\ pre' = NoPre
    /\ UNCHANGED <<utc, cap, proc>>

AddComment(team, timestamp, comment, commenter_name, offset, index) ==
    /\ \A i \in 1..Len(results[team].rows) :
          Len(ParseComments(results[team].rows[i].comments)) < MaxComments
    /\ LET out == add_comment_to_result(DB, timestamp, comment, commenter_name, team,
                                        offset, index)
       IN  /\ SetDB(out.db)
           /\ ret' = [op |-> "add_comment_to_result",
                      args |-> [team |-> team, timestamp |-> timestamp,
                                comment |-> comment,
                                commenter_name |-> commenter_name,
                                offset |-> offset, index |-> index],
                      out |-> out.ret]
    /\ df' = <<>>
    /\ df_sorted' = <<>>
    /\ pre' = NoPre
    /\ UNCHANGED <<utc, cap, proc>>

Tick ==
    /\ utc < MaxUtc
    /\ utc' = utc + 1
    /\ ret' = [op |-> "tick"]
    /\ df' = <<>>
    /\ df_sorted' = <<>>
    /\ pre' = NoPre
    /\ UNCHANGED <<ledger, results, pending, deleted, cap, proc>>

(***************************************************************************)
(* Specifications                                                          *)
(***************************************************************************)
\* inputs of a commit: <<player1, player2, result>>
GoodMatches ==
    {<<"alice", "bob">>, <<"bob", "alice">>, <<"alice", "carol">>, <<"null", "bob">>}

BadCalls == {<<"", "bob", "1-0">>, <<"alice", "", "0-1">>, <<"alice", "alice", "1-0">>,
             <<"alice", "bob", "2-0">>}

CommitInputs == {<<m[1], m[2], r>> : m \in GoodMatches, r \in ResultFormats} \cup BadCalls

\* direct commits, undo and player management on the main database
Next ==
    \/ \E c \in CommitInputs :
          SubmitImmediate("", "chess", c[1], c[2], c[3], NoneTs, EmptyStr)
    \/ UndoLast("")
    \/ MakeNewPlayer("", "chess", "carol", DefaultRating, NoneTs)
    \/ DeletePlayer("", "chess", "carol")

Spec == Init /\ [][Next]_vars

\* inputs of a submission for approval: <<player1, player2, result, comment, commenter_name>>
ApprovalInputs ==
    {<<"alice", "bob", "1-0", "gg", "dan">>, <<"carol", "alice", "0-1", "", "">>,
     <<"bob", "carol", "1/2-1/2", "wp", "">>, <<"null", "bob", "1-0", "", "">>}

\* the pending queue and its approval
NextApproval ==
    \/ \E c \in ApprovalInputs :
          SubmitForApproval("", "chess", c[1], c[2], c[3], c[4], c[5])
    \/ ApproveAll("")
    \/ MakeNewPlayer("", "chess", "carol", DefaultRating, NoneTs)
    \/ DeletePlayer("", "chess", "carol")
    \/ Tick

SpecApproval == Init /\ [][NextApproval]_vars

\* the database after n committed games between alice and bob
HistoryResult(n) == CASE n % 3 = 0 -> "1-0" [] n % 3 = 1 -> "1/2-1/2" [] OTHER -> "0-1"

RECURSIVE History(_, _, _)
History(db, game, n) ==
    IF n = 0 THEN db
    ELSE LET out == submit_game_with_charts(db, 0, "alice", "bob", HistoryResult(n),
                                            game, "", NoneTs, EmptyStr)
         IN  IF out.ret.success THEN History(out.db, game, n - 1) ELSE db

HistoryLens == {18, 19, 20}

PlayersOf(game) ==
    make_new_player(
        make_new_player(
            make_new_player(EmptyDB, "alice", game, "", DefaultRating, NoneTs),
            "bob", game, "", DefaultRating, NoneTs),
        "carol", game, "", DefaultRating, NoneTs)

\* long histories: alice and bob have played each other 18 to 20 times in one
\* game, carol is new
InitK ==
    /\ \E game \in Games, h \in HistoryLens :
          LET db == History(PlayersOf(game), game, h)
          IN  /\ ledger = db.ledger
              /\ results = db.results
              /\ pending = db.pending
              /\ deleted = db.deleted
              /\ cap = h + MaxResults
    /\ utc = 0
    /\ ret = [op |-> "init"]
    /\ df = <<>>
    /\ df_sorted = <<>>
    /\ pre = NoPre
    /\ proc = NoProc

KMatches == {<<"alice", "bob">>, <<"bob", "alice">>, <<"alice", "carol">>}

\* commits in the game that has the players
NextK ==
    \E game \in Games, m \in KMatches, r \in ResultFormats :
        /\ ledger[<<"", game, "alice">>].exists
        /\ SubmitImmediate("", game, m[1], m[2], r, NoneTs, EmptyStr)

SpecK == InitK /\ [][NextK]_vars

(***************************************************************************)
(* Commits, the undo and delete_last_entry on the ledgers of one game      *)
(***************************************************************************)
LedgerMatches == {<<"alice", "bob">>, <<"null", "bob">>}

\* the --delete_last_entry lists: one player, two players, a player with no file
DeleteLists == {<<"alice">>, <<"alice", "bob">>, <<"carol">>}

NextLedger ==
    \/ \E m \in LedgerMatches, r \in {"1-0", "1/2-1/2"} :
           SubmitImmediate("", "chess", m[1], m[2], r, NoneTs, EmptyStr)
    \/ UndoLast("")
    \/ \E players \in DeleteLists : DeleteLastEntry("", "chess", players)

SpecLedger == Init /\ [][NextLedger]_vars

(***************************************************************************)
(* The rating functions applied to chosen inputs, next to commits between  *)
(* two players who start 800 points apart                                  *)
(***************************************************************************)
\* ratings given to calculate_elo_probability: gaps up to 1200 points, and
\* gaps of 7100 points and more
RatingInputs == {700 * RScale, 1200 * RScale, 1201 * RScale, 1500 * RScale, 1900 * RScale, 9000 * RScale}

\* rating pairs given to update: equal whole ratings, equal ratings with a
\* fraction (the commit writes its ratings unrounded), unequal ratings one
\* point to 1000 points apart
UpdateInputs ==
    {<<1500 * RScale, 1500 * RScale>>, <<1200 * RScale, 1200 * RScale>>,
     <<1500 * RScale + 500, 1500 * RScale + 500>>, <<1237 * RScale + 700, 1237 * RScale + 700>>,
     <<1600 * RScale, 1400 * RScale>>, <<2000 * RScale, 1000 * RScale>>,
     <<1000 * RScale, 2000 * RScale>>, <<1500 * RScale, 1501 * RScale>>}

ScoreInputs == {0, PScale \div 2, PScale}

KInputs == {get_k_factor("backgammon"), Min(20, get_k_factor("chess")), get_k_factor("chess")}

ApplyProbability(rating_a, rating_b) ==
    /\ ret' = [op |-> "calculate_elo_probability",
               args |-> [rating_a |-> rating_a, rating_b |-> rating_b],
               out |-> calculate_elo_probability(rating_a, rating_b)]
    /\ UNCHANGED <<ledger, results, pending, deleted, utc, df, df_sorted, pre, cap, proc>>

ApplyUpdate(rating1, rating2, score, K) ==
    /\ ret' = [op |-> "update",
               args |-> [rating1 |-> rating1, rating2 |-> rating2, score |-> score, K |-> K],
               out |-> update(rating1, rating2, score, K)]
    /\ UNCHANGED <<ledger, results, pending, deleted, utc, df, df_sorted, pre, cap, proc>>

\* game names given to get_k_factor: the three games in three spellings,
\* unknown names, the empty string and None
GameInputs ==
    {"chess", "Chess", "CHESS", "pingpong", "PingPong", "PINGPONG",
     "backgammon", "Backgammon", "BACKGAMMON", "unknown_game", "invalid", "INVALID",
     "", NoneGame}

ApplyKFactor(game) ==
    /\ ret' = [op |-> "get_k_factor", args |-> [game |-> game], out |-> get_k_factor(game)]
    /\ UNCHANGED <<ledger, results, pending, deleted, utc, df, df_sorted, pre, cap, proc>>

\* the database after make_new_player for alice at 1200 and bob at 2000
EloDB ==
    make_new_player(
        make_new_player(EmptyDB, "alice", "chess", "", DefaultRating, NoneTs),
        "bob", "chess", "", 2000 * RScale, NoneTs)

InitElo ==
    /\ ledger = EloDB.ledger
    /\ results = EloDB.results
    /\ pending = EloDB.pending
    /\ deleted = EloDB.deleted
    /\ utc = 0
    /\ ret = [op |-> "init"]
    /\ df = <<>>
    /\ df_sorted = <<>>
    /\ pre = NoPre
    /\ proc = NoProc
    /\ cap = MaxResults

EloMatches == {<<"bob", "alice">>}

NextElo ==
    \/ \E rating_a \in RatingInputs, rating_b \in RatingInputs :
           ApplyProbability(rating_a, rating_b)
    \/ \E rs \in UpdateInputs, score \in ScoreInputs, K \in KInputs :
           ApplyUpdate(rs[1], rs[2], score, K)
    \/ \E game \in GameInputs : ApplyKFactor(game)
    \/ \E m \in EloMatches, r \in ResultFormats :
           SubmitImmediate("", "chess", m[1], m[2], r, NoneTs, EmptyStr)

SpecElo == InitElo /\ [][NextElo]_vars

(***************************************************************************)
(* Requests served at the same time.  server.py runs the Flask server with *)
(* app.run, which serves each request in its own thread, and update.py      *)
(* takes no lock: the file reads and writes of submit_game_with_charts and *)
(* undo_last_result interleave.  Each action below is one file access (or   *)
(* a run of reads) of one request; a request that stops between two steps  *)
(* is a crashed one.                                                       *)
(***************************************************************************)
CommitProcs == {"c1", "c2"}

\* the two direct commits, which share alice
CommitCalls ==
    [c1 |-> [team |-> "", game |-> "chess", player1 |-> "alice", player2 |-> "bob",
             result |-> "1-0", timestamp |-> NoneTs, comment |-> EmptyStr],
     c2 |-> [team |-> "", game |-> "chess", player1 |-> "carol", player2 |-> "alice",
             result |-> "1-0", timestamp |-> NoneTs, comment |-> EmptyStr]]

\* the database the requests start from: alice, bob and carol in chess and
\* one committed game, a draw between bob and carol
StepsDB ==
    submit_game_with_charts(
        make_new_player(InitDB, "carol", "chess", "", DefaultRating, NoneTs),
        0, "bob", "carol", "1/2-1/2", "chess", "", NoneTs, EmptyStr).db

InitSteps ==
    /\ ledger = StepsDB.ledger
    /\ results = StepsDB.results
    /\ pending = StepsDB.pending
    /\ deleted = StepsDB.deleted
    /\ utc = 0
    /\ ret = [op |-> "init"]
    /\ df = <<>>
    /\ df_sorted = <<>>
    /\ pre = [set |-> FALSE, db |-> StepsDB]
    /\ cap = MaxResults
    /\ proc = [p \in CommitProcs \cup {"u"} |->
                 IF p \in CommitProcs
                 THEN [pc |-> "read_ratings", call |-> CommitCalls[p], rating1 |-> 0,
                       rating2 |-> 0, k_factor1 |-> 0, k_factor2 |-> 0,
                       out |-> [success |-> FALSE]]
                 ELSE [pc |-> "read_results", team |-> "", df |-> <<>>,
                       player_df |-> <<>>, deleted_entries |-> <<>>,
                       out |-> [success |-> FALSE]]]

\* submit_game_with_charts: the locals computed from what was read
rating_change1(c) ==
    (ScoreOf(c.call.result) - calculate_elo_probability(c.rating1, c.rating2)) * c.k_factor1

rating_change2(c) ==
    ((PScale - ScoreOf(c.call.result)) - calculate_elo_probability(c.rating2, c.rating1))
        * c.k_factor2

\* submit_game_with_charts: validation and read_ratings
CommitReadRatings(p) ==
    /\ proc[p].pc = "read_ratings"
    /\ LET c == proc[p].call
           err == InputError(c.player1, c.player2, c.result)
           rr == read_ratings(DB, c.player1, c.player2, c.game, c.team)
       IN  proc' = IF err # ""
                   THEN [proc EXCEPT ![p].pc = "done", ![p].out = Error(err)]
                   ELSE IF ~rr.ok
                   THEN [proc EXCEPT ![p].pc = "done",
                                     ![p].out = Error("No such file or directory")]
                   ELSE [proc EXCEPT ![p].pc = "k_factors", ![p].rating1 = rr.rating1,
                                     ![p].rating2 = rr.rating2]
    /\ UNCHANGED <<ledger, results, pending, deleted, utc, ret, df, df_sorted, pre, cap>>

\* submit_game_with_charts: the two get_adjusted_k_factor calls
CommitKFactors(p) ==
    /\ proc[p].pc = "k_factors"
    /\ LET c == proc[p].call
       IN  proc' = [proc EXCEPT ![p].pc = "write1",
                       ![p].k_factor1 = get_adjusted_k_factor(DB, c.player1, c.game, c.team),
                       ![p].k_factor2 = get_adjusted_k_factor(DB, c.player2, c.game, c.team)]
    /\ UNCHANGED <<ledger, results, pending, deleted, utc, ret, df, df_sorted, pre, cap>>

\* submit_game_with_charts: write_new_rating for player1
CommitWrite1(p) ==
    /\ proc[p].pc = "write1"
    /\ LET c == proc[p].call
       IN  SetDB(write_new_rating(DB, utc, c.player1,
                                  proc[p].rating1 + rating_change1(proc[p]), c.player2,
                                  ScoreOf(c.result), c.game, "white", c.team, c.timestamp))
    /\ proc' = [proc EXCEPT ![p].pc = "write2"]
    /\ UNCHANGED <<utc, ret, df, df_sorted, pre, cap>>

\* submit_game_with_charts: write_new_rating for player2
CommitWrite2(p) ==
    /\ proc[p].pc = "write2"
    /\ LET c == proc[p].call
       IN  SetDB(write_new_rating(DB, utc, c.player2,
                                  proc[p].rating2 + rating_change2(proc[p]), c.player1,
                                  PScale - ScoreOf(c.result), c.game, "black", c.team,
                                  c.timestamp))
    /\ proc' = [proc EXCEPT ![p].pc = "log_result"]
    /\ UNCHANGED <<utc, ret, df, df_sorted, pre, cap>>

\* submit_game_with_charts: log_result_to_team and the return
CommitLogResult(p) ==
    /\ proc[p].pc = "log_result"
    /\ LET c == proc[p].call
           probability == calculate_elo_probability(proc[p].rating1, proc[p].rating2)
           out == [success |-> TRUE, game |-> c.game, player1 |-> c.player1,
                   player2 |-> c.player2, result |-> c.result,
                   new_rating1 |-> TruncDiv(proc[p].rating1 + rating_change1(proc[p]), RScale),
                   new_rating2 |-> TruncDiv(proc[p].rating2 + rating_change2(proc[p]), RScale),
                   probability |-> probability]
       IN  /\ SetDB(log_result_to_team(DB, utc, c.player1, c.player2, c.result, c.game,
                                       c.team, probability, c.timestamp,
                                       rating_change1(proc[p]), rating_change2(proc[p]),
                                       c.comment))
           /\ proc' = [proc EXCEPT ![p].pc = "done", ![p].out = out]
           /\ ret' = [op |-> "submit_game_with_charts", args |-> c, out |-> out]
    /\ UNCHANGED <<utc, df, df_sorted, pre, cap>>

\* the undo with the results file cut before the audit row is written
undo_next_pc_truncate_first(pc) ==
    CASE pc = "read_results" -> "truncate_results"
      [] pc = "truncate_results" -> "log_deleted"
      [] pc = "log_deleted" -> "read_ledger1"
      [] pc = "read_ledger1" -> "write_ledger1"
      [] pc = "write_ledger1" -> "read_ledger2"
      [] pc = "read_ledger2" -> "write_ledger2"
      [] pc = "write_ledger2" -> "done"

\* undo_last_result: the order of its file accesses
undo_next_pc(pc) ==
    CASE pc = "read_results" -> "log_deleted"
      [] pc = "log_deleted" -> "truncate_results"
      [] pc = "truncate_results" -> "read_ledger1"
      [] pc = "read_ledger1" -> "write_ledger1"
      [] pc = "write_ledger1" -> "read_ledger2"
      [] pc = "read_ledger2" -> "write_ledger2"
      [] pc = "write_ledger2" -> "done"

\* undo_last_result: what it returns once the loop over the players is over
UndoOut(u) ==
    LET last_result == Last(u.df)
    IN  [success |-> TRUE,
         undone_result |-> [timestamp |-> last_result.timestamp, game |-> last_result.game,
                            player1 |-> read_csv_cell(last_result.player1),
                            player2 |-> read_csv_cell(last_result.player2),
                            result |-> last_result.result,
                            probability |-> last_result.probability],
         deleted_entries |-> u.deleted_entries]

\* the undo moves to position pc; at "done" it returns
UndoGoto(u, pc) ==
    IF pc = "done" THEN [u EXCEPT !.pc = pc, !.out = UndoOut(u)] ELSE [u EXCEPT !.pc = pc]

\* undo_last_result: os.path.exists and pd.read_csv of results.csv
UndoReadResults ==
    /\ proc["u"].pc = "read_results"
    /\ LET u == proc["u"]
           f == results[u.team]
       IN  proc' = IF ~f.exists
                   THEN [proc EXCEPT !["u"].pc = "done",
                                     !["u"].out = Error("No results file found")]
                   ELSE IF f.rows = <<>>
                   THEN [proc EXCEPT !["u"].pc = "done",
                                     !["u"].out = Error("No results found to undo")]
                   ELSE [proc EXCEPT !["u"] = UndoGoto([u EXCEPT !.df = f.rows],
                                                       undo_next_pc("read_results"))]
    /\ UNCHANGED <<ledger, results, pending, deleted, utc, ret, df, df_sorted, pre, cap>>

\* undo_last_result: log_deleted_result for the row that was read
UndoLogDeleted ==
    /\ proc["u"].pc = "log_deleted"
    /\ LET u == proc["u"]
           last_result == Last(u.df)
       IN  /\ SetDB(log_deleted_result(DB, utc, read_csv_cell(last_result.player1),
                                       read_csv_cell(last_result.player2),
                                       last_result.result, last_result.game, u.team,
                                       last_result.probability, last_result.timestamp))
           /\ proc' = [proc EXCEPT !["u"] = UndoGoto(u, undo_next_pc("log_deleted"))]
    /\ UNCHANGED <<utc, ret, df, df_sorted, pre, cap>>

\* undo_last_result: df.iloc[:-1].to_csv(results_file), df being what was read
UndoTruncateResults ==
    /\ proc["u"].pc = "truncate_results"
    /\ LET u == proc["u"]
       IN  /\ results' = [results EXCEPT ![u.team] = File(ButLast(u.df))]
           /\ proc' = [proc EXCEPT !["u"] = UndoGoto(u, undo_next_pc("truncate_results"))]
    /\ UNCHANGED <<ledger, pending, deleted, utc, ret, df, df_sorted, pre, cap>>

\* the name of the i-th player of the row being undone, as read back
UndoPlayerName(u, i) ==
    read_csv_cell(IF i = 1 THEN Last(u.df).player1 ELSE Last(u.df).player2)

\* undo_last_result: os.path.exists and pd.read_csv of the i-th player's file
UndoReadLedger(i) ==
    /\ proc["u"].pc = (IF i = 1 THEN "read_ledger1" ELSE "read_ledger2")
    /\ LET u == proc["u"]
           f == ledger[<<u.team, Last(u.df).game, FStr(UndoPlayerName(u, i))>>]
       IN  proc' = IF ~f.exists \/ Len(f.rows) <= 1
                   THEN [proc EXCEPT !["u"] = UndoGoto(u, undo_next_pc(undo_next_pc(u.pc)))]
                   ELSE [proc EXCEPT !["u"] = UndoGoto([u EXCEPT !.player_df = f.rows],
                                                       undo_next_pc(u.pc))]
    /\ UNCHANGED <<ledger, results, pending, deleted, utc, ret, df, df_sorted, pre, cap>>

\* undo_last_result: player_df.iloc[:-1].to_csv(player_file)
UndoWriteLedger(i) ==
    /\ proc["u"].pc = (IF i = 1 THEN "write_ledger1" ELSE "write_ledger2")
    /\ LET u == proc["u"]
           player == UndoPlayerName(u, i)
           last_entry == Last(u.player_df)
           entry == [player |-> player, rating |-> last_entry.rating,
                     opponent |-> last_entry.opponent, result |-> last_entry.result,
                     colour |-> last_entry.colour, timestamp |-> last_entry.timestamp]
       IN  /\ ledger' = [ledger EXCEPT ![<<u.team, Last(u.df).game, FStr(player)>>] =
                                           File(ButLast(u.player_df))]
           /\ proc' = [proc EXCEPT !["u"] =
                          UndoGoto([u EXCEPT !.deleted_entries = Append(@, entry)],
                                   undo_next_pc(u.pc))]
    /\ UNCHANGED <<results, pending, deleted, utc, ret, df, df_sorted, pre, cap>>

NextSteps ==
    \/ \E p \in CommitProcs : CommitReadRatings(p)
    \/ \E p \in CommitProcs : CommitKFactors(p)
    \/ \E p \in CommitProcs : CommitWrite1(p)
    \/ \E p \in CommitProcs : CommitWrite2(p)
    \/ \E p \in CommitProcs : CommitLogResult(p)
    \/ UndoReadResults
    \/ UndoLogDeleted
    \/ UndoTruncateResults
    \/ \E i \in {1, 2} : UndoReadLedger(i)
    \/ \E i \in {1, 2} : UndoWriteLedger(i)

SpecSteps == InitSteps /\ [][NextSteps]_vars

(***************************************************************************)
(* The same operations in the main database and in team teamA, one game at *)
(* a time in each, next to a player of the main database whose game is     *)
(* named like the team                                                     *)
(***************************************************************************)
\* the main database of Init, and alice playing chess in teamA
ScopesDB == make_new_player(InitDB, "alice", "chess", "teamA", DefaultRating, NoneTs)

InitScopes ==
    /\ ledger = ScopesDB.ledger
    /\ results = ScopesDB.results
    /\ pending = ScopesDB.pending
    /\ deleted = ScopesDB.deleted
    /\ utc = 0
    /\ ret = [op |-> "init"]
    /\ df = <<>>
    /\ df_sorted = <<>>
    /\ pre = NoPre
    /\ proc = NoProc
    /\ cap = 1

NextScopes ==
    \/ \E team \in Teams :
          \/ MakeNewPlayer(team, "chess", "bob", DefaultRating, NoneTs)
          \/ SubmitImmediate(team, "chess", "alice", "bob", "1-0", NoneTs, EmptyStr)
          \/ UndoLast(team)
          \/ /\ Len(pending[team].rows) + Len(results[team].rows)
                    + Len(deleted[team].rows) < cap
             /\ SubmitForApproval(team, "chess", "bob", "alice", "1-0", "gg", "dan")
          \/ ApproveAll(team)
          \/ DeletePending(team, 0)
          \/ ClearPending(team)
          \/ AddComment(team, NoStamp, "wp", "erin", 0, 0)
    \/ \E team \in Teams \ {""} :
          MakeNewPlayer("", team, "deleted", DefaultRating, NoneTs)

SpecScopes == InitScopes /\ [][NextScopes]_vars

(***************************************************************************)
(* Comments on committed and approved results of the main database         *)
(***************************************************************************)
\* <<timestamp, offset, index>> given to add_comment_to_result: positions
\* inside and outside the log without a timestamp, and the two minutes a
\* result of the run can carry, spelled with seconds, with microseconds, to
\* the minute and as an ISO text
CommentCalls ==
    {<<NoStamp, 0, 0>>, <<NoStamp, 0, 1>>, <<NoStamp, 1, 0>>, <<NoStamp, 1, 1>>,
     <<NoStamp, 0, -1>>, <<NoStamp, 0, 3>>,
     <<[fmt |-> "%S", tick |-> 1, second |-> 30], 0, 0>>,
     <<[fmt |-> "%S", tick |-> 2, second |-> 30], 0, 0>>,
     <<[fmt |-> "%M", tick |-> 2, second |-> 0], 0, 1>>,
     <<[fmt |-> "%f", tick |-> 1, second |-> 30], 1, 0>>,
     <<[fmt |-> "T", tick |-> 2, second |-> 0], 0, 0>>}

\* <<player1, player2, comment, timestamp>> of a commit: no comment, a comment
\* as format_comment_for_storage writes it, a comment as plain text; played
\* now or at minute 1
CommentedCommits ==
    {<<"null", "bob", EmptyStr, 1>>,
     <<"alice", "bob", format_comment_for_storage("gg", "dan"), NoneTs>>,
     <<"bob", "alice", PlainStr("gg"), NoneTs>>}

NextComments ==
    \/ \E c \in CommentedCommits :
          SubmitImmediate("", "chess", c[1], c[2], "1-0", c[4], c[3])
    \/ /\ pending[""].rows = <<>>
       /\ SubmitForApproval("", "chess", "bob", "alice", "0-1", "gl", "dan")
    \/ ApproveAll("")
    \/ \E c \in CommentCalls : AddComment("", c[1], "wp", "erin", c[2], c[3])

SpecComments == Init /\ [][NextComments]_vars

(***************************************************************************)
(* Every operation on the results of one scope, the main database          *)
(***************************************************************************)
\* <<player1, player2>> of the commits
OpsMatches == {<<"alice", "bob">>, <<"null", "bob">>}

\* <<player1, player2, result, comment, commenter_name>> of the submissions
OpsSubmissions == {<<"bob", "alice", "0-1", "gl", "dan">>, <<"null", "alice", "1-0", "", "">>}

\* index given to delete_pending_result: below, inside and above the queue
IndexInputs == {-1, 0, 1, 2}

NextOps ==
    \/ \E m \in OpsMatches :
          SubmitImmediate("", "chess", m[1], m[2], "1-0", NoneTs, EmptyStr)
    \/ \E c \in OpsSubmissions :
          SubmitForApproval("", "chess", c[1], c[2], c[3], c[4], c[5])
    \/ ApproveAll("")
    \/ \E index \in IndexInputs : DeletePending("", index)
    \/ ClearPending("")
    \/ UndoLast("")
    \/ AddComment("", NoStamp, "wp", "erin", 0, 0)

SpecOps == Init /\ [][NextOps]_vars

(***************************************************************************)
(* Creating players that exist, with and without a history, and players    *)
(* that do not                                                             *)
(***************************************************************************)
\* <<player_name, starting_rating, starting_timestamp>> given to make_new_player
PlayerInputs ==
    {<<"alice", DefaultRating, NoneTs>>, <<"alice", 1500 * RScale, 1>>,
     <<"carol", DefaultRating, NoneTs>>, <<"carol", 1500 * RScale, NoneTs>>,
     <<"carol", DefaultRating, 1>>}

PlayerMatches == {<<"alice", "bob">>, <<"alice", "carol">>}

NextPlayers ==
    \/ \E c \in PlayerInputs : MakeNewPlayer("", "chess", c[1], c[2], c[3])
    \/ DeletePlayer("", "chess", "carol")
    \/ \E m \in PlayerMatches :
          SubmitImmediate("", "chess", m[1], m[2], "1-0", NoneTs, EmptyStr)
    \/ UndoLast("")

SpecPlayers == Init /\ [][NextPlayers]_vars

(***************************************************************************)
(* Pending records that carry a game timestamp of their own, queued in the *)
(* same second or one tick apart, and their approval                       *)
(***************************************************************************)
\* <<player1, player2, timestamp>> given to log_pending_result
TimedGames == {<<"alice", "bob", 2>>, <<"bob", "alice", 1>>, <<"alice", "bob", NoneTs>>}

NextTimed ==
    \/ \E g \in TimedGames :
          LogPending("", "chess", g[1], g[2], "1-0", PScale \div 2, g[3])
    \/ ApproveAll("")
    \/ ClearPending("")
    \/ Tick

SpecTimed == Init /\ [][NextTimed]_vars

(***************************************************************************)
(* Properties                                                              *)
(***************************************************************************)
IsCall(r, op) == r.op = op

Committed(r) == r.op = "submit_game_with_charts" /\ r.out.success

LatestRating(f) == Last(f.rows).rating

\* C1: a successful direct commit immediately followed by undo_last_result on
\* the same team leaves both players' latest rating at its pre-commit value,
\* the results log with its pre-commit rows, and deleted.csv one row longer.
C1_UndoLeftInverse ==
    (pre.set /\ pre.undone) =>
        LET k1 == <<pre.team, pre.game, pre.player1>>
            k2 == <<pre.team, pre.game, pre.player2>>
        IN  /\ ret.out.success
            /\ LatestRating(ledger[k1]) = LatestRating(pre.db.ledger[k1])
            /\ LatestRating(ledger[k2]) = LatestRating(pre.db.ledger[k2])
            /\ results[pre.team].rows = pre.db.results[pre.team].rows
            /\ Len(deleted[pre.team].rows) = Len(pre.db.deleted[pre.team].rows) + 1

\* a commit of a decisive game on a non-empty results log has just been undone
C1_Witness ==
    /\ pre.set /\ pre.undone
    /\ Len(results[pre.team].rows) = 1
    /\ Last(deleted[pre.team].rows).result = "1-0"
    /\ Len(ret.out.deleted_entries) = 2

\* C7: a successful direct commit appends exactly one entry to player1's
\* ledger (opponent player2, the score, white), one to player2's ledger
\* (opponent player1, 1 - score, black) and one record with both changes and
\* the pre-commit probability to the team's results log; the other ledgers,
\* the pending queue and deleted.csv keep their value and no existing row of
\* the two ledgers or of the results log changes.
C7_CommitFrame ==
    [][Committed(ret)' =>
        LET a == ret'.args
            k1 == <<a.team, a.game, a.player1>>
            k2 == <<a.team, a.game, a.player2>>
            score == CASE a.result = "1-0" -> PScale
                       [] a.result = "0-1" -> 0
                       [] OTHER -> PScale \div 2
            e1 == Last(ledger'[k1].rows)
            e2 == Last(ledger'[k2].rows)
            rec == Last(results'[a.team].rows)
        IN  /\ ledger'[k1] = File(Append(ledger[k1].rows, e1))
            /\ e1.opponent = a.player2 /\ e1.result = score /\ e1.colour = "white"
            /\ ledger'[k2] = File(Append(ledger[k2].rows, e2))
            /\ e2.opponent = a.player1 /\ e2.result = PScale - score /\ e2.colour = "black"
            /\ results'[a.team] = File(Append(results[a.team].rows, rec))
            /\ rec.game = a.game /\ rec.player1 = a.player1 /\ rec.player2 = a.player2
            /\ rec.result = a.result
            /\ rec.probability =
                   calculate_elo_probability(LatestRating(ledger[k1]), LatestRating(ledger[k2]))
            /\ rec.player1_change =
                   RoundHalfEven(e1.rating - LatestRating(ledger[k1]), RScale)
            /\ rec.player2_change =
                   RoundHalfEven(e2.rating - LatestRating(ledger[k2]), RScale)
            /\ \A k \in LedgerKeys \ {k1, k2} : ledger'[k] = ledger[k]
            /\ \A t \in Teams \ {a.team} : results'[t] = results[t]
            /\ pending' = pending
            /\ deleted' = deleted]_vars

\* a commit between two players while a third ledger exists and the results
\* log already held a row
C7_Witness ==
    /\ Committed(ret)
    /\ ledger[<<"", "chess", "carol">>].exists
    /\ ret.args.player1 # "carol" /\ ret.args.player2 # "carol"
    /\ Len(results[""].rows) = 2
    /\ Len(ledger[<<"", "chess", "alice">>].rows) = 3

\* C8: when either player's ledger is absent, the direct commit returns an
\* error and writes nothing.
C8_MissingLedgerWritesNothing ==
    [][(/\ IsCall(ret, "submit_game_with_charts")'
        /\ ret'.args.player1 \in Players /\ ret'.args.player2 \in Players
        /\ \/ ~ledger[<<ret'.args.team, ret'.args.game, ret'.args.player1>>].exists
           \/ ~ledger[<<ret'.args.team, ret'.args.game, ret'.args.player2>>].exists)
       => /\ ~ret'.out.success
          /\ UNCHANGED <<ledger, results, pending, deleted>>]_vars

\* alice against the missing carol was refused; alice's ledger has history
C8_Witness ==
    /\ IsCall(ret, "submit_game_with_charts")
    /\ ret.args.player1 = "alice" /\ ret.args.player2 = "carol"
    /\ ret.args.result \in ResultFormats
    /\ ~ledger[<<"", "chess", "carol">>].exists
    /\ Len(ledger[<<"", "chess", "alice">>].rows) > 1
    /\ ~ret.out.success

\* C9: a result outside "1-0", "0-1", "1/2-1/2", an empty player name and
\* player1 = player2 are each refused with an error and no write.
C9_InvalidInputWritesNothing ==
    [][(/\ IsCall(ret, "submit_game_with_charts")'
        /\ \/ ret'.args.result \notin {"1-0", "0-1", "1/2-1/2"}
           \/ ret'.args.player1 = ""
           \/ ret'.args.player2 = ""
           \/ ret'.args.player1 = ret'.args.player2)
       => /\ ~ret'.out.success
          /\ UNCHANGED <<ledger, results, pending, deleted>>]_vars

\* alice against alice was refused on a database that has results
C9_Witness ==
    /\ IsCall(ret, "submit_game_with_charts")
    /\ ret.args.player1 = "alice" /\ ret.args.player2 = "alice"
    /\ ret.args.result \in ResultFormats
    /\ ~ret.out.success
    /\ Len(results[""].rows) > 0

PolicyK(game, count) ==
    LET base == CASE game = "chess" -> 40 [] game = "pingpong" -> 40 [] game = "backgammon" -> 10
    IN  IF count < 20 THEN base ELSE IF base < 20 THEN base ELSE 20

\* C11: in a commit the rating moves of the two players are
\* delta1 = K1 * (score - p) and delta2 = K2 * ((1 - score) - (1 - p)), each
\* with the player's own K-factor around the one probability
\* p = calculate_elo_probability(rating1, rating2) stored with the result;
\* so delta1 * K2 = -delta2 * K1, and when K1 # K2 and score # p the moves
\* are not opposite (delta1 # -delta2).
C11_PerSideK ==
    [][Committed(ret)' =>
        LET a == ret'.args
            k1 == <<a.team, a.game, a.player1>>
            k2 == <<a.team, a.game, a.player2>>
            K1 == PolicyK(a.game, Len(ledger[k1].rows) - 1)
            K2 == PolicyK(a.game, Len(ledger[k2].rows) - 1)
            score == CASE a.result = "1-0" -> PScale
                       [] a.result = "0-1" -> 0
                       [] OTHER -> PScale \div 2
            p == Last(results'[a.team].rows).probability
            delta1 == LatestRating(ledger'[k1]) - LatestRating(ledger[k1])
            delta2 == LatestRating(ledger'[k2]) - LatestRating(ledger[k2])
        IN  /\ p = calculate_elo_probability(LatestRating(ledger[k1]), LatestRating(ledger[k2]))
            /\ delta1 = K1 * (score - p)
            /\ delta2 = K2 * ((PScale - score) - (PScale - p))
            /\ delta1 * K2 = -(delta2 * K1)
            /\ (K1 # K2 /\ score # p) => delta1 # -delta2]_vars

\* carol's first chess game, against alice who has 20 games behind her:
\* alice moves by 20 * (score - p), carol by 40 * (p - score)
C11_Witness ==
    /\ Committed(ret)
    /\ ret.args.player1 = "alice" /\ ret.args.player2 = "carol" /\ ret.args.result = "1-0"
    /\ Len(ledger[<<"", "chess", "alice">>].rows) = 22
    /\ Len(ledger[<<"", "chess", "carol">>].rows) = 2
    /\ LET arows == ledger[<<"", "chess", "alice">>].rows
           crows == ledger[<<"", "chess", "carol">>].rows
       IN  /\ arows[22].rating > arows[21].rating
           /\ crows[2].rating - crows[1].rating = -2 * (arows[22].rating - arows[21].rating)

(***************************************************************************)
(* Properties of the rating functions                                      *)
(***************************************************************************)
Updated(r) == r.op = "update"

IsWhole(rating) == rating % RScale = 0

Sign(n) == IF n < 0 THEN -1 ELSE IF n > 0 THEN 1 ELSE 0

\* the change the claim allows for a computed change `raw` (1/RScale points)
ClampedAs(raw, applied) ==
    /\ (raw # 0 /\ Abs(raw) < RScale) => applied = Sign(raw) * RScale
    /\ raw = 0 => applied = 0

\* C12: a computed rating change that is not zero and smaller than one point
\* is applied as exactly one point of the same sign, and a change of zero as
\* zero: in update (on whole ratings the returned rating moves by the applied
\* change) and in the change each commit writes to the two ledgers.
C12_SmallChangeClamped ==
    [][/\ (Updated(ret)' /\ IsWhole(ret'.args.rating1) /\ IsWhole(ret'.args.rating2)) =>
            LET a == ret'.args
                raw1 == (a.score - calculate_elo_probability(a.rating1, a.rating2)) * a.K
                raw2 == ((PScale - a.score) - calculate_elo_probability(a.rating2, a.rating1)) * a.K
            IN  /\ ClampedAs(raw1, ret'.out[1] * RScale - a.rating1)
                /\ ClampedAs(raw2, ret'.out[2] * RScale - a.rating2)
       /\ Committed(ret)' =>
            LET a == ret'.args
                k1 == <<a.team, a.game, a.player1>>
                k2 == <<a.team, a.game, a.player2>>
                r1 == LatestRating(ledger[k1])
                r2 == LatestRating(ledger[k2])
                score == ScoreOf(a.result)
                raw1 == (score - calculate_elo_probability(r1, r2))
                            * PolicyK(a.game, Len(ledger[k1].rows) - 1)
                raw2 == ((PScale - score) - calculate_elo_probability(r2, r1))
                            * PolicyK(a.game, Len(ledger[k2].rows) - 1)
            IN  /\ ClampedAs(raw1, LatestRating(ledger'[k1]) - r1)
                /\ ClampedAs(raw2, LatestRating(ledger'[k2]) - r2)]_vars

\* the outcome the claim gives for equal ratings r and a common K
EqualRatingsMove(r, score, K) ==
    CASE score = PScale -> <<r + (K * RScale) \div 2, r - (K * RScale) \div 2>>
      [] score = 0 -> <<r - (K * RScale) \div 2, r + (K * RScale) \div 2>>
      [] OTHER -> <<r, r>>

\* C13 as stated: for equal ratings r and a common K, update moves the winner
\* to r + K/2 and the loser to r - K/2 and a draw leaves both at r; the move
\* with K = 40 is four times the move with K = 10.
C13_EqualRatingsAsStated ==
    (Updated(ret) /\ ret.args.rating1 = ret.args.rating2) =>
        LET a == ret.args
            k10 == update(a.rating1, a.rating2, a.score, 10)
        IN  /\ ret.out[1] * RScale = EqualRatingsMove(a.rating1, a.score, a.K)[1]
            /\ ret.out[2] * RScale = EqualRatingsMove(a.rating1, a.score, a.K)[2]
            /\ a.K = 40 => ret.out[1] * RScale - a.rating1 = 4 * (k10[1] * RScale - a.rating1)

\* C13: for equal ratings r and a common K of 10, 20 or 40, update returns
\* round(r + K/2) for the winner and round(r - K/2) for the loser and
\* round(r) for both after a draw; when r is a whole number these are
\* r + K/2, r - K/2 and r, update(1500, 1500, 1, 40) is (1520, 1480), a draw
\* gives (1500, 1500), and the move with K = 40 is four times that with K = 10.
C13_EqualRatings ==
    (Updated(ret) /\ ret.args.rating1 = ret.args.rating2) =>
        LET a == ret.args
            move == EqualRatingsMove(a.rating1, a.score, a.K)
            k10 == update(a.rating1, a.rating2, a.score, 10)
        IN  /\ ret.out[1] = RoundHalfEven(move[1], RScale)
            /\ ret.out[2] = RoundHalfEven(move[2], RScale)
            /\ IsWhole(a.rating1) =>
                  /\ ret.out[1] * RScale = move[1]
                  /\ ret.out[2] * RScale = move[2]
                  /\ a.K = 40 => ret.out[1] * RScale - a.rating1
                                     = 4 * (k10[1] * RScale - a.rating1)
            /\ (a.rating1 = 1500 * RScale /\ a.K = 40 /\ a.score = PScale)
                  => (ret.out[1] = 1520 /\ ret.out[2] = 1480)
            /\ (a.rating1 = 1500 * RScale /\ a.K = 40 /\ a.score = PScale \div 2)
                  => (ret.out[1] = 1500 /\ ret.out[2] = 1500)

\* update(1500, 1500, 1.0, K=40) has returned 1520 and 1480
C13_Witness ==
    /\ Updated(ret)
    /\ ret.args = [rating1 |-> 1500 * RScale, rating2 |-> 1500 * RScale, score |-> PScale, K |-> 40]
    /\ ret.out = <<1520, 1480, PScale \div 2>>

Probed(r) == r.op = "calculate_elo_probability"

HasBootstrap ==
    \A key \in LedgerKeys :
        ledger[key].exists =>
            /\ Len(ledger[key].rows) >= 1
            /\ ledger[key].rows[1].opponent = "no opponent"

\* the files of scope team: its ledgers, ResultLog, PendingQueue and DeletedLog
ScopeFiles(team) ==
    [ledger |-> [k \in {l \in LedgerKeys : l[1] = team} |-> ledger[k]],
     results |-> results[team], pending |-> pending[team], deleted |-> deleted[team]]

WriteOps ==
    {"make_new_player", "submit_game_with_charts", "submit_result",
     "approve_pending_results", "delete_pending_result", "clear_all_pending_results",
     "undo_last_result", "add_comment_to_result"}

\* C17: a write operation applied to one scope (create player, commit,
\* submitForApproval, approveAll, deletePending, clearPending, undoLast,
\* addComment), for any game and player names, leaves every ledger, the
\* ResultLog, the PendingQueue and the DeletedLog of every other scope unchanged.
C17_ScopesIsolated ==
    [][ret'.op \in WriteOps =>
          \A other \in Teams \ {ret'.args.team} : ScopeFiles(other)' = ScopeFiles(other)]_vars

\* C18: every ledger that exists holds at least its bootstrap row:
\* undo_last_result and delete_last_entry do not remove the only row left,
\* and no commit, undo or delete_last_entry changes the first row.
C18_BootstrapStays ==
    /\ HasBootstrap
    /\ [][/\ HasBootstrap'
          /\ ret'.op \in {"submit_game_with_charts", "undo_last_result", "delete_last_entry"}
                => \A key \in LedgerKeys :
                      /\ ledger[key].exists = ledger'[key].exists
                      /\ ledger[key].exists => ledger'[key].rows[1] = ledger[key].rows[1]]_vars

\* the undo of alice v bob after delete_last_entry took alice's entry: the
\* undo finds one row in alice's ledger and leaves it, and removes bob's
C18_Witness ==
    /\ IsCall(ret, "undo_last_result") /\ ret.out.success
    /\ ret.out.undone_result.player1 = "alice"
    /\ Len(ret.out.deleted_entries) = 1
    /\ Len(ledger[<<"", "chess", "alice">>].rows) = 1
    /\ Len(ledger[<<"", "chess", "bob">>].rows) = 1

\* the row of deleted.csv carries the fields of the row of results.csv
Carries(row, record) ==
    /\ row.original_timestamp = record.timestamp
    /\ row.game = record.game
    /\ row.player1 = record.player1
    /\ row.player2 = record.player2
    /\ row.result = record.result
    /\ row.probability = record.probability

\* C19: deleted.csv only grows: every step keeps the rows it has, only
\* undo_last_result adds to it, and an undo that finds a last row in
\* results.csv adds exactly one row, carrying that row's timestamp, game,
\* player1, player2, result and probability.
C19_DeletedLogOnlyGrows ==
    [][\A team \in Teams :
          /\ deleted[team].exists => deleted'[team].exists
          /\ Len(deleted'[team].rows) >= Len(deleted[team].rows)
          /\ SubSeq(deleted'[team].rows, 1, Len(deleted[team].rows)) = deleted[team].rows
          /\ deleted'[team] # deleted[team]
                => (IsCall(ret', "undo_last_result") /\ ret'.args.team = team)
          /\ (IsCall(ret', "undo_last_result") /\ ret'.args.team = team
                  /\ results[team].exists /\ results[team].rows # <<>>)
                => /\ Len(deleted'[team].rows) = Len(deleted[team].rows) + 1
                   /\ Carries(Last(deleted'[team].rows), Last(results[team].rows))]_vars

(***************************************************************************)
(* Properties of requests served at the same time                          *)
(***************************************************************************)
\* the database after the commits of requests `first` and `second`, one
\* after the other, on the database db the requests started from
SerialCommits(db, first, second) ==
    LET a == proc[first].call
        b == proc[second].call
        db1 == submit_game_with_charts(db, utc, a.player1, a.player2, a.result, a.game,
                                       a.team, a.timestamp, a.comment).db
    IN  submit_game_with_charts(db1, utc, b.player1, b.player2, b.result, b.game,
                                b.team, b.timestamp, b.comment).db

\* C15: when two direct commits that share a player have both returned (and
\* no undo has run), the ledgers and the results file equal those of the
\* two commits run one after the other, in one of the two orders.
C15_CommitsSerializable ==
    (proc["c1"].pc = "done" /\ proc["c2"].pc = "done" /\ proc["u"].pc = "read_results")
        => \E order \in {<<"c1", "c2">>, <<"c2", "c1">>} :
              LET serial == SerialCommits(pre.db, order[1], order[2])
              IN  /\ \A key \in LedgerKeys : ledger[key] = serial.ledger[key]
                  /\ \A team \in Teams : results[team] = serial.results[team]

\* the results file of the default pool holds a row of player1 against player2
InResults(player1, player2) ==
    \E i \in 1..Len(results[""].rows) :
        results[""].rows[i].player1 = player1 /\ results[""].rows[i].player2 = player2

\* deleted.csv of the default pool holds a row of player1 against player2
InDeleted(player1, player2) ==
    \E i \in 1..Len(deleted[""].rows) :
        deleted[""].rows[i].player1 = player1 /\ deleted[""].rows[i].player2 = player2

\* the chess ledger of `player` holds an entry of a game against `opponent`
HasEntry(player, opponent) ==
    \E i \in 2..Len(ledger[<<"", "chess", player>>].rows) :
        ledger[<<"", "chess", player>>].rows[i].opponent = opponent

\* C16: when an undo and a commit served at the same time have both
\* returned, each of the two records (the one committed before, bob against
\* carol, and the one of the commit, alice against bob) is either still in
\* the results file with its two ledger entries, or archived in deleted.csv
\* with its two ledger entries removed: the record and the entries removed
\* are those of the archived record, and the committed record is not lost.
C16_UndoRemovesWhatItArchived ==
    (proc["u"].pc = "done" /\ proc["c1"].pc = "done" /\ proc["c2"].pc = "read_ratings")
        => \A X \in {<<"bob", "carol">>, <<"alice", "bob">>} :
              /\ InResults(X[1], X[2]) # InDeleted(X[1], X[2])
              /\ HasEntry(X[1], X[2]) = InResults(X[1], X[2])
              /\ HasEntry(X[2], X[1]) = InResults(X[1], X[2])

\* the row the undo has read is archived in deleted.csv
UndoneIsArchived(team) ==
    LET last_result == Last(proc["u"].df)
    IN  \E i \in 1..Len(deleted[team].rows) :
            LET row == deleted[team].rows[i]
            IN  /\ row.original_timestamp = last_result.timestamp
                /\ row.game = last_result.game
                /\ row.player1 = last_result.player1
                /\ row.player2 = last_result.player2
                /\ row.result = last_result.result
                /\ row.probability = last_result.probability

\* C20: every step that removes a row from a results file or from a ledger
\* is taken in a state where the record being undone is already a row of
\* deleted.csv; so in no state, a crash between two steps included, is the
\* record gone from the results file, or a ledger entry removed by the undo,
\* without the record being archived.
C20_AuditBeforeRemoval ==
    [][\A team \in Teams :
          (\/ Len(results'[team].rows) < Len(results[team].rows)
           \/ \E key \in LedgerKeys : key[1] = team
                                       /\ Len(ledger'[key].rows) < Len(ledger[key].rows))
          => (UndoneIsArchived(team) /\ UndoneIsArchived(team)')]_vars

\* the undo has archived the draw of bob and carol and cut the results file,
\* and has not yet touched a ledger
C20_Witness ==
    /\ proc["u"].pc = "read_ledger1"
    /\ ~InResults("bob", "carol")
    /\ InDeleted("bob", "carol")
    /\ HasEntry("bob", "carol") /\ HasEntry("carol", "bob")

(***************************************************************************)
(* Properties of the approval of pending results                           *)
(***************************************************************************)
Approved(r) == r.op = "approve_pending_results"

\* a pending record whose replay is refused in the current database: the
\* names are the same, the result is not a result, or a ledger file the
\* replay opens (named by the cell as read back) is absent
Fails(q, team) ==
    \/ q.player1 = q.player2
    \/ q.result \notin {"1-0", "0-1", "1/2-1/2"}
    \/ ~ledger[<<team, q.game, FStr(read_csv_cell(q.player1))>>].exists
    \/ ~ledger[<<team, q.game, FStr(read_csv_cell(q.player2))>>].exists

\* the results record rec is the commit of the pending record q
SameGame(rec, q) ==
    /\ rec.timestamp = q.timestamp /\ rec.game = q.game
    /\ rec.player1 = q.player1 /\ rec.player2 = q.player2 /\ rec.result = q.result

Count(seq, v) == Cardinality({i \in 1..Len(seq) : seq[i] = v})

\* C2: the results rows appended by one approve_pending_results call come
\* from the pending records in non-decreasing submission_timestamp order,
\* whatever the storage order of the queue.
C2_ReplayInSubmissionOrder ==
    [][Approved(ret)' =>
        LET t == ret'.args.team
            q == pending[t].rows
            n == Len(results'[t].rows) - Len(results[t].rows)
            new == [i \in 1..n |-> results'[t].rows[Len(results[t].rows) + i]]
        IN  \E f \in [1..n -> 1..Len(q)] :
                /\ \A i, j \in 1..n : i # j => f[i] # f[j]
                /\ \A i \in 1..n : SameGame(new[i], q[f[i]])
                /\ \A i, j \in 1..n :
                       i < j => q[f[i]].submission_timestamp <= q[f[j]].submission_timestamp]_vars

\* two or more records were committed from a queue stored out of order
C2_Witness ==
    /\ Approved(ret)
    /\ ret.out.processed_count >= 2
    /\ \E i, j \in 1..Len(df) :
          i < j /\ df[i].submission_timestamp > df[j].submission_timestamp

\* C3: after an approval in which a replay fails, the queue holds exactly the
\* records whose replay failed, each once, and no record whose replay
\* succeeded; every record whose replay succeeded is in the results log.
C3_QueueKeepsExactlyFailures ==
    [][(/\ Approved(ret)'
        /\ \E i \in 1..Len(pending[ret'.args.team].rows) :
              Fails(pending[ret'.args.team].rows[i], ret'.args.team))
       => LET t == ret'.args.team
              q == pending[t].rows
              Failing(x) == Fails(x, t)
              Passing(x) == ~Fails(x, t)
              n == Len(results'[t].rows) - Len(results[t].rows)
              new == [i \in 1..n |-> results'[t].rows[Len(results[t].rows) + i]]
          IN  /\ pending'[t].exists
              /\ Len(pending'[t].rows) = Len(SelectSeq(q, Failing))
              /\ \A i \in 1..Len(q) :
                     Count(pending'[t].rows, q[i]) = Count(SelectSeq(q, Failing), q[i])
              /\ n = Len(SelectSeq(q, Passing))
              /\ \A i \in 1..Len(q) :
                     Passing(q[i]) => \E j \in 1..n : SameGame(new[j], q[i])]_vars

\* an approval committed a record and kept another one
C3_Witness ==
    /\ Approved(ret)
    /\ ret.out.processed_count >= 1
    /\ ret.out.failed_count >= 1
    /\ pending[""].exists
    /\ Len(pending[""].rows) = ret.out.failed_count

\* C4: processed_count is the number of records committed, failed_count the
\* number of records left in the queue, and they add up to total_pending, the
\* queue length at the start; three records of which only the second fails
\* give processed_count 2 and failed_count 1.
C4_ApprovalCounts ==
    [][(/\ Approved(ret)'
        /\ pending[ret'.args.team].exists
        /\ pending[ret'.args.team].rows # <<>>)
       => LET t == ret'.args.team
              out == ret'.out
          IN  /\ out.processed_count = Len(results'[t].rows) - Len(results[t].rows)
              /\ out.failed_count = Len(pending'[t].rows)
              /\ out.total_pending = Len(pending[t].rows)
              /\ out.processed_count + out.failed_count = out.total_pending
              /\ (/\ Len(df_sorted') = 3
                  /\ ~Fails(df_sorted'[1], t)
                  /\ Fails(df_sorted'[2], t)
                  /\ ~Fails(df_sorted'[3], t))
                 => (out.processed_count = 2 /\ out.failed_count = 1)]_vars

\* three records were replayed, the second failed and is the one left
C4_Witness ==
    /\ Approved(ret)
    /\ ret.out.processed_count = 2
    /\ ret.out.failed_count = 1
    /\ Len(df_sorted) = 3
    /\ pending[""].rows = <<df_sorted[2]>>
    /\ df_sorted[1].submission_timestamp < df_sorted[2].submission_timestamp

\* C5: when every pending record is replayed successfully the queue file is
\* removed, not left empty, and an approval that finds no queue file reports
\* processed_count 0 and changes nothing.
C5_CleanSlate ==
    [][Approved(ret)' =>
        LET t == ret'.args.team
            q == pending[t].rows
        IN  /\ (/\ pending[t].exists
                /\ q # <<>>
                /\ \A i \in 1..Len(q) : ~Fails(q[i], t))
               => ~pending'[t].exists
            /\ ~pending[t].exists
               => /\ ret'.out.success
                  /\ ret'.out.processed_count = 0
                  /\ UNCHANGED <<ledger, results, pending, deleted>>]_vars

\* an approval found no queue file on a database whose queue was approved before
C5_Witness ==
    /\ Approved(ret)
    /\ ret.out.processed_count = 0
    /\ ~pending[""].exists
    /\ Len(results[""].rows) >= 2

\* the same records committed one by one with submit_game_with_charts
RECURSIVE DirectCommits(_, _, _, _, _)
DirectCommits(db, now, team, frame, i) ==
    IF i > Len(frame) THEN db
    ELSE DirectCommits(
             submit_game_with_charts(db, now, frame[i].player1, frame[i].player2,
                                     frame[i].result, frame[i].game, team,
                                     frame[i].timestamp, frame[i].comments).db,
             now, team, frame, i + 1)

\* C6: an approval leaves the ledgers and the results log as the direct
\* commits of the pending records, one by one in the sorted order, leave
\* them: each replay starts from the ratings and game counts the previous
\* replays of the batch left.
C6_ApprovalIsSequenceOfCommits ==
    [][(Approved(ret)' /\ pending[ret'.args.team].exists)
       => LET d == DirectCommits(DB, utc, ret'.args.team, df_sorted', 1)
          IN  /\ ledger' = d.ledger
              /\ results' = d.results
              /\ deleted' = d.deleted]_vars

\* two records were committed and the last one was replayed at a probability
\* other than the one stored when it was submitted
C6_Witness ==
    /\ Approved(ret)
    /\ ret.out.processed_count >= 2
    /\ ret.out.failed_count = 0
    /\ Last(results[""].rows).probability # Last(df_sorted).probability
    /\ Last(results[""].rows).comments # EmptyStr

(***************************************************************************)
(* Comments                                                                *)
(***************************************************************************)
\* the call that led to r returned success
Succeeded(r) == "out" \in DOMAIN r /\ "success" \in DOMAIN r.out /\ r.out.success

\* the 1-based row of the ResultLog of length n that <<offset, index>> selects
Selected(n, offset, index) == n - offset - index

\* C21: a successful addComment changes the comments of the ResultLog row at
\* storage position totalRows - 1 - offset - index and of no other row; with
\* offset = 0 and index = 0 that row is the last appended one.
C21_CommentTargetsPosition ==
    [][ret'.op = "add_comment_to_result" /\ Succeeded(ret') =>
          LET team == ret'.args.team
              n == Len(results[team].rows)
              k == Selected(n, ret'.args.offset, ret'.args.index)
          IN  /\ k \in 1..n
              /\ Len(results'[team].rows) = n
              /\ \A i \in 1..n :
                    (results'[team].rows[i].comments # results[team].rows[i].comments)
                        <=> i = k
              /\ ret'.args.offset = 0 /\ ret'.args.index = 0 =>
                    Last(results'[team].rows).comments # Last(results[team].rows).comments]_vars

\* a comment addressed with offset = 0 and index = 0 landed on the last of two
\* or more rows, and the first row has none
C21_Witness ==
    /\ ret.op = "add_comment_to_result" /\ Succeeded(ret)
    /\ ret.args.offset = 0 /\ ret.args.index = 0
    /\ Len(results[""].rows) >= 2
    /\ <<"wp", "erin">> = Last(ParseComments(Last(results[""].rows).comments))
    /\ results[""].rows[1].comments = EmptyStr

\* the position <<offset, index>> is outside the ResultLog of length n
InvalidPosition(n, offset, index) == Selected(n, offset, index) \notin 1..n

\* the supplied timestamp names another minute than the row's timestamp
TimestampMismatch(timestamp, row) == timestamp # NoStamp /\ timestamp.tick # row.timestamp

\* C22: addComment on a position outside 0..totalRows-1, or with a supplied
\* timestamp that differs at minute precision from the target record's, fails
\* and leaves the ResultLog, every comment list included, unchanged.
C22_FailedCommentWritesNothing ==
    [][ret'.op = "add_comment_to_result" =>
          LET team == ret'.args.team
              n == Len(results[team].rows)
              k == Selected(n, ret'.args.offset, ret'.args.index)
          IN  (\/ InvalidPosition(n, ret'.args.offset, ret'.args.index)
               \/ TimestampMismatch(ret'.args.timestamp, results[team].rows[k]))
              => /\ ~Succeeded(ret')
                 /\ results' = results]_vars

\* a call with a timestamp spelled with seconds that names another minute than
\* the last row was rejected, and the log holds a comment
C22_Witness ==
    /\ ret.op = "add_comment_to_result" /\ ~Succeeded(ret)
    /\ ret.args.offset = 0 /\ ret.args.index = 0
    /\ results[""].rows # <<>>
    /\ ret.args.timestamp # NoStamp /\ ret.args.timestamp.fmt = "%S"
    /\ ret.args.timestamp.tick # Last(results[""].rows).timestamp
    /\ Last(results[""].rows).comments # EmptyStr

\* the comments a record holds, in order
CommentsOf(row) == row.comments.items

\* C23: a successful addComment appends the new entry at the end of the target
\* record's comment list and keeps every comment the record had, in order;
\* no other field of that record and no other record changes.
C23_CommentAppends ==
    [][ret'.op = "add_comment_to_result" /\ Succeeded(ret') =>
          LET team == ret'.args.team
              n == Len(results[team].rows)
              k == Selected(n, ret'.args.offset, ret'.args.index)
              entry == <<ret'.args.comment, ret'.args.commenter_name>>
          IN  /\ Len(results'[team].rows) = n
              /\ \A i \in (1..n) \ {k} : results'[team].rows[i] = results[team].rows[i]
              /\ CommentsOf(results'[team].rows[k])
                    = Append(CommentsOf(results[team].rows[k]), entry)
              /\ [results'[team].rows[k] EXCEPT !.comments = EmptyStr]
                    = [results[team].rows[k] EXCEPT !.comments = EmptyStr]]_vars

(***************************************************************************)
(* The pending queue                                                       *)
(***************************************************************************)
\* both ledgers of the submitted game exist
LedgersExist(a) ==
    /\ <<a.team, a.game, a.player1>> \in LedgerKeys
    /\ <<a.team, a.game, a.player2>> \in LedgerKeys
    /\ ledger[<<a.team, a.game, a.player1>>].exists
    /\ ledger[<<a.team, a.game, a.player2>>].exists

\* C24: submitForApproval appends exactly one pending record, with the
\* probability computed from the two players' latest ratings, no rating
\* changes and empty notes_to_admin, and leaves every ledger, the ResultLog and
\* the DeletedLog unchanged; when a ledger is missing nothing is queued.
C24_SubmissionOnlyQueues ==
    [][ret'.op = "submit_result" =>
          LET a == ret'.args
          IN  /\ ledger' = ledger /\ results' = results /\ deleted' = deleted
              /\ \A t \in Teams \ {a.team} : pending'[t] = pending[t]
              /\ ~LedgersExist(a) => ~Succeeded(ret') /\ pending' = pending
              /\ Succeeded(ret') =>
                    /\ pending'[a.team].exists
                    /\ Len(pending'[a.team].rows) = Len(pending[a.team].rows) + 1
                    /\ ButLast(pending'[a.team].rows) = pending[a.team].rows
                    /\ LET e == Last(pending'[a.team].rows)
                       IN  /\ e.player1 = a.player1 /\ e.player2 = a.player2
                           /\ e.game = a.game /\ e.result = a.result
                           /\ e.probability =
                                 calculate_elo_probability(
                                     LatestRating(ledger[<<a.team, a.game, a.player1>>]),
                                     LatestRating(ledger[<<a.team, a.game, a.player2>>]))
                           /\ e.player1_change = NA /\ e.player2_change = NA
                           /\ e.notes_to_admin = ""]_vars

\* a game was queued between players whose ratings had moved apart
C24_Witness ==
    /\ ret.op = "submit_result" /\ Succeeded(ret)
    /\ results[""].rows # <<>>
    /\ Last(pending[""].rows).probability # PScale \div 2
    /\ Last(pending[""].rows).player1_change = NA

\* the sequence s without its element at 1-based position k
Without(s, k) == SubSeq(s, 1, k - 1) \o SubSeq(s, k + 1, Len(s))

\* C25: deletePending(index) with 0 <= index < n removes exactly the record at
\* 0-based position index of the queue's storage order and keeps the other
\* n - 1 records unchanged and in their order; any other index returns an
\* error and leaves the queue unchanged.
C25_DeletePendingRemovesOne ==
    [][ret'.op = "delete_pending_result" =>
          LET team == ret'.args.team
              index == ret'.args.index
              n == Len(pending[team].rows)
          IN  IF index >= 0 /\ index < n
              THEN /\ Succeeded(ret')
                   /\ pending'[team].rows = Without(pending[team].rows, index + 1)
              ELSE /\ ~Succeeded(ret')
                   /\ pending' = pending]_vars

(***************************************************************************)
(* Ledgers against the ResultLog                                           *)
(***************************************************************************)
\* the ResultLog records of a scope and game that name the player
RecordsNaming(team, game, player) ==
    SelectSeq(results[team].rows,
              LAMBDA r : r.game = game /\ (r.player1 = player \/ r.player2 = player))

\* the other player of a record that names the player
OpponentIn(r, player) == IF r.player1 = player THEN r.player2 ELSE r.player1

\* C29: in every state reached from bootstrap-only ledgers and empty logs by
\* submitImmediate, submitForApproval, approveAll, deletePending, clearPending,
\* undoLast and addComment on one scope, each ledger has one entry after the
\* bootstrap entry for each ResultLog record of its scope and game that names
\* its player, with the opponents of those records in their order.
C29_LedgerMatchesResultLog ==
    \A key \in LedgerKeys :
        ledger[key].exists =>
            LET recs == RecordsNaming(key[1], key[2], key[3])
            IN  /\ Len(ledger[key].rows) - 1 = Len(recs)
                /\ \A i \in 1..Len(recs) :
                      ledger[key].rows[i + 1].opponent = OpponentIn(recs[i], key[3])

(***************************************************************************)
(* Direction and size of the rating update                                 *)
(***************************************************************************)
\* the points update gives the winner of a decisive game, in 1/RScale
WinnerGain(rating1, rating2, score, K) ==
    IF score = PScale THEN update(rating1, rating2, score, K)[1] * RScale - rating1
    ELSE update(rating1, rating2, score, K)[2] * RScale - rating2

\* the points update takes from the loser of a decisive game, in 1/RScale
LoserLoss(rating1, rating2, score, K) ==
    IF score = PScale THEN rating2 - update(rating1, rating2, score, K)[2] * RScale
    ELSE rating1 - update(rating1, rating2, score, K)[1] * RScale

\* the score of player 1 when the lower-rated of two unequal ratings wins
UpsetScore(rating1, rating2) == IF rating1 < rating2 THEN PScale ELSE 0

BootstrapEntry(starting_rating, starting_timestamp) ==
    [rating |-> starting_rating, opponent |-> "no opponent", result |-> 0,
     colour |-> "no colour",
     timestamp |-> IF starting_timestamp = NoneTs THEN BeginningOfTime
                   ELSE starting_timestamp]

\* C27: make_new_player for a (scope, game, player) whose ledger exists writes
\* nothing, so the rating history is not reset; on a missing ledger it creates
\* exactly the bootstrap entry (the starting rating, 1200 by default, no
\* opponent, result 0, no colour, 'beginning of time' or the given timestamp)
\* and changes no other ledger.
C27_CreateIsIdempotent ==
    /\ DefaultRating = 1200 * RScale
    /\ [][ret'.op = "make_new_player" =>
             LET a == ret'.args
                 key == <<a.team, a.game, a.player_name>>
             IN  IF ledger[key].exists
                 THEN ledger' = ledger /\ results' = results
                      /\ pending' = pending /\ deleted' = deleted
                 ELSE /\ ledger'[key] =
                            File(<<BootstrapEntry(a.starting_rating, a.starting_timestamp)>>)
                      /\ \A k \in LedgerKeys \ {key} : ledger'[k] = ledger[k]]_vars

\* make_new_player was called with another rating and timestamp for alice,
\* who has played a game, and her ledger still holds the game
C27_Witness ==
    /\ ret.op = "make_new_player" /\ ret.args.player_name = "alice"
    /\ ret.args.starting_rating = 1500 * RScale /\ ret.args.starting_timestamp = 1
    /\ Len(ledger[<<"", "chess", "alice">>].rows) >= 2
    /\ ledger[<<"", "chess", "alice">>].rows[1].rating = DefaultRating

(***************************************************************************)
(* The base K-factor                                                       *)
(***************************************************************************)
\* the K-factor the claim gives for a game name
ClaimedK(game) ==
    CASE game \in {"chess", "Chess", "CHESS", "pingpong", "PingPong", "PINGPONG"} -> 40
      [] game \in {"backgammon", "Backgammon", "BACKGAMMON"} -> 10
      [] OTHER -> 40

\* C28: the base K-factor lookup ignores the case of the game name and
\* answers for every name: 40 for chess and pingpong, 10 for backgammon, and
\* 40 for an unknown name, the empty string and None.
C28_BaseKFactor ==
    ret.op = "get_k_factor" =>
        /\ ret.args.game \in GameInputs
        /\ ret.out = ClaimedK(ret.args.game)

\* get_k_factor('BACKGAMMON') has returned 10
C28_Witness ==
    ret.op = "get_k_factor" /\ ret.args.game = "BACKGAMMON" /\ ret.out = 10

(***************************************************************************)
(* Replay order among records submitted at the same time                   *)
(***************************************************************************)
\* C30: when two pending records have the same submission_timestamp,
\* approveAll replays them in ascending order of their game timestamp,
\* whatever their storage order in the queue.
C30_TiesReplayByGameTime ==
    [][Approved(ret)' =>
        LET t == ret'.args.team
            q == pending[t].rows
            n == Len(results'[t].rows) - Len(results[t].rows)
            new == [i \in 1..n |-> results'[t].rows[Len(results[t].rows) + i]]
        IN  \E f \in [1..n -> 1..Len(q)] :
                /\ \A i, j \in 1..n : i # j => f[i] # f[j]
                /\ \A i \in 1..n : SameGame(new[i], q[f[i]])
                /\ \A i, j \in 1..n :
                       (i < j /\ q[f[i]].submission_timestamp = q[f[j]].submission_timestamp)
                           => q[f[i]].timestamp <= q[f[j]].timestamp]_vars

(***************************************************************************)
(* Comments carried through an approval                                    *)
(***************************************************************************)
\* submissions with a comment, carol's ledger coming and going
NextTransfer ==
    \/ \E c \in {<<"alice", "bob", "1-0", "gg", "dan">>, <<"carol", "bob", "1-0", "gl", "erin">>} :
          SubmitForApproval("", "chess", c[1], c[2], c[3], c[4], c[5])
    \/ ApproveAll("")
    \/ MakeNewPlayer("", "chess", "carol", DefaultRating, NoneTs)
    \/ DeletePlayer("", "chess", "carol")
    \/ Tick

SpecTransfer == Init /\ [][NextTransfer]_vars

\* the results record rec is the commit of the pending record q, the names
\* compared as pandas reads them
CommitOf(rec, q) ==
    /\ rec.timestamp = q.timestamp /\ rec.game = q.game /\ rec.result = q.result
    /\ read_csv_cell(rec.player1) = read_csv_cell(q.player1)
    /\ read_csv_cell(rec.player2) = read_csv_cell(q.player2)

\* C31: an approval appends one results record per pending record whose
\* replay succeeds, in replay order, and that record carries the comments of
\* its pending record; a record whose replay fails adds no record and no
\* comment, and the comments of the records committed before the approval
\* are unchanged.
C31_CommentsFollowTheirRecord ==
    [][(Approved(ret)' /\ pending[ret'.args.team].exists)
       => LET t == ret'.args.team
              Passing(x) == ~Fails(x, t)
              ok == SelectSeq(df_sorted', Passing)
              old == results[t].rows
              new == results'[t].rows
          IN  /\ Len(new) = Len(old) + Len(ok)
              /\ \A k \in 1..Len(ok) :
                     /\ CommitOf(new[Len(old) + k], ok[k])
                     /\ new[Len(old) + k].comments = ok[k].comments
              /\ \A i \in 1..Len(old) : new[i].comments = old[i].comments]_vars

\* an approval committed a commented record after a commented one from an
\* earlier approval, and kept a commented record whose replay failed
C31_Witness ==
    /\ Approved(ret)
    /\ ret.out.processed_count >= 1
    /\ ret.out.failed_count >= 1
    /\ Len(results[""].rows) > ret.out.processed_count
    /\ results[""].rows[1].comments # EmptyStr
    /\ Last(results[""].rows).comments # EmptyStr
    /\ \E i \in 1..Len(pending[""].rows) : pending[""].rows[i].comments # EmptyStr

(***************************************************************************)
(* Undo at the edges: nothing to undo, and a ledger with nothing to give   *)
(***************************************************************************)
Undone(r) == r.op = "undo_last_result"

\* C32: undo_last_result on a scope whose results log is absent or holds no
\* record returns an error and leaves every file as it was: no row is
\* written to the deleted log and no ledger is truncated.
C32_NothingToUndo ==
    [][(/\ Undone(ret)'
        /\ ~results[ret'.args.team].exists \/ results[ret'.args.team].rows = <<>>)
       => /\ ~Succeeded(ret')
          /\ "error" \in DOMAIN ret'.out
          /\ UNCHANGED <<ledger, results, pending, deleted>>]_vars

\* an undo was refused on a results log emptied by an earlier undo
C32_Witness ==
    /\ Undone(ret)
    /\ ~Succeeded(ret)
    /\ results[""].exists
    /\ results[""].rows = <<>>
    /\ deleted[""].rows # <<>>

\* commits against carol, whose ledger is deleted and created again
NextSkip ==
    \/ \E m \in {<<"alice", "carol">>, <<"null", "carol">>} :
          SubmitImmediate("", "chess", m[1], m[2], "1-0", NoneTs, EmptyStr)
    \/ UndoLast("")
    \/ MakeNewPlayer("", "chess", "carol", DefaultRating, NoneTs)
    \/ DeletePlayer("", "chess", "carol")

SpecSkip == Init /\ [][NextSkip]_vars

\* the ledger has no entry an undo may remove: no file, or the bootstrap only
NothingToGive(f) == ~f.exists \/ Len(f.rows) <= 1

\* what an undo of the last record of scope t owes when player x has nothing
\* to give and the opponent y has: success, the record archived and removed,
\* y's ledger one entry shorter, x's ledger as it was, and y's removed entry
\* alone in deleted_entries
UndoSkips(t, x, y) ==
    LET tail == Last(results[t].rows)
        kx == <<t, tail.game, x>>
        ky == <<t, tail.game, y>>
        gone == Last(ledger[ky].rows)
    IN  /\ Succeeded(ret')
        /\ Len(results'[t].rows) = Len(results[t].rows) - 1
        /\ Len(deleted'[t].rows) = Len(deleted[t].rows) + 1
        /\ Carries(Last(deleted'[t].rows), tail)
        /\ ledger'[ky].exists
        /\ ledger'[ky].rows = ButLast(ledger[ky].rows)
        /\ ledger'[kx] = ledger[kx]
        /\ Len(ret'.out.deleted_entries) = 1
        /\ ret'.out.deleted_entries[1].player = y
        /\ ret'.out.deleted_entries[1].rating = gone.rating
        /\ ret'.out.deleted_entries[1].opponent = gone.opponent
        /\ ret'.out.deleted_entries[1].timestamp = gone.timestamp

\* C33: when one of the two players named in the last results record has a
\* ledger with the bootstrap entry only, or no ledger, and the other has an
\* entry to give, undo_last_result succeeds: it archives and removes the
\* record, removes the last entry of the other player's ledger, leaves the
\* first ledger as it was and returns the removed entry of the other ledger
\* only.
C33_UndoSkipsBootstrapOnly ==
    [][\A t \in Teams :
          (/\ Undone(ret)' /\ ret'.args.team = t
           /\ results[t].exists /\ results[t].rows # <<>>)
          => LET tail == Last(results[t].rows)
             IN  \A x, y \in Players :
                    (/\ {x, y} = {tail.player1, tail.player2}
                     /\ x # y
                     /\ NothingToGive(ledger[<<t, tail.game, x>>])
                     /\ ~NothingToGive(ledger[<<t, tail.game, y>>]))
                    => UndoSkips(t, x, y)]_vars

(***************************************************************************)
(* The ratings a commit writes and the changes it records                  *)
(***************************************************************************)
\* C34: every rating a commit appends to a ledger is round(previous latest
\* rating + change), a whole number of points; from whole bootstrap ratings
\* every ledger rating stays whole.
C34_CommitsWriteWholeRatings ==
    [][Committed(ret')
       => \A key \in LedgerKeys :
             Len(ledger'[key].rows) > Len(ledger[key].rows)
                => IsWhole(LatestRating(ledger'[key]))]_vars

\* C35: the player1_change and player2_change of the results record a commit
\* writes are the differences between the rating of the ledger entry the
\* commit appended for that player and the player's latest rating before it,
\* so removing the entry moves the latest rating by the negated stored change.
C35_StoredChangeIsLedgerDifference ==
    [][Committed(ret')
       => LET a == ret'.args
              rec == Last(results'[a.team].rows)
              key1 == <<a.team, a.game, a.player1>>
              key2 == <<a.team, a.game, a.player2>>
          IN  /\ rec.player1_change * RScale
                    = LatestRating(ledger'[key1]) - LatestRating(ledger[key1])
              /\ rec.player2_change * RScale
                    = LatestRating(ledger'[key2]) - LatestRating(ledger[key2])]_vars

(***************************************************************************)
(* The commit of the command line                                          *)
(***************************************************************************)
\* --player1 and --player2 with the three scores; carol has no ledger
NextCli ==
    \/ \E m \in {<<"alice", "bob">>, <<"bob", "alice">>, <<"alice", "carol">>},
          score \in ScoreInputs :
          CliCommit("", "chess", m[1], m[2], score, NoneTs)
    \/ UndoLast("")
    \/ Tick

SpecCli == Init /\ [][NextCli]_vars

CliCommitted(r) == r.op = "main" /\ r.out.success

\* C38: the command line commit gives player2 the complement of player1's
\* score: player2's new rating is the one update computes for the second
\* player from player1's score with player2's K-factor, so it does not rise
\* when player1 wins and does not fall when player1 loses.
C38_CliComplementaryScore ==
    [][CliCommitted(ret')
       => LET a == ret'.args
              key1 == <<a.team, a.game, a.player1>>
              key2 == <<a.team, a.game, a.player2>>
              k_factor2 == get_adjusted_k_factor(DB, a.player2, a.game, a.team)
              old2 == LatestRating(ledger[key2])
              new2 == LatestRating(ledger'[key2])
          IN  /\ new2 = RScale * update(LatestRating(ledger[key1]), old2,
                                        a.score, k_factor2)[2]
              /\ a.score = PScale => new2 <= old2
              /\ a.score = 0 => new2 >= old2]_vars

(***************************************************************************)
(* The pending queue as listed and as addressed                            *)
(***************************************************************************)
\* <<player1, player2, result, comment, commenter_name>> of the submissions
QueueSubmissions == {<<"alice", "bob", "1-0", "gg", "dan">>, <<"bob", "alice", "1-0", "", "">>}

NextQueue ==
    \/ \E c \in QueueSubmissions :
          SubmitForApproval("", "chess", c[1], c[2], c[3], c[4], c[5])
    \/ \E page \in {<<0, 25>>, <<0, 1>>, <<1, 1>>} : ListPending("", page[1], page[2])
    \/ \E index \in 0..2 : DeletePending("", index)
    \/ \E index \in 0..2 : AddAdminNote("", index, "ok")
    \/ Tick

\* the clock starts one tick earlier than in Init, in summer time, so that
\* submissions are made at increasing UK times before the clocks go back
InitQueue ==
    /\ ledger = InitDB.ledger
    /\ results = InitDB.results
    /\ pending = InitDB.pending
    /\ deleted = InitDB.deleted
    /\ utc = -1
    /\ ret = [op |-> "init"]
    /\ df = <<>>
    /\ df_sorted = <<>>
    /\ pre = NoPre
    /\ proc = NoProc
    /\ cap = MaxResults

SpecQueue == InitQueue /\ [][NextQueue]_vars

Listed(r) == r.op = "get_pending_results" /\ "results" \in DOMAIN r.out

\* the entry e of a listing shows the stored record q
Shows(e, q) ==
    /\ e.timestamp = q.timestamp
    /\ e.submission_timestamp = q.submission_timestamp
    /\ e.game = Title(q.game)
    /\ e.player1 = format_player_name_for_display(q.player1)
    /\ e.player2 = format_player_name_for_display(q.player2)
    /\ e.result = q.result
    /\ e.comments = q.comments
    /\ e.notes_to_admin = q.notes_to_admin

\* C36: the index a listing of the pending queue reports for a record
\* identifies that record to delete_pending_result and to
\* add_admin_note_to_pending: the call made with a listed index right after
\* the listing succeeds and removes, or annotates, the record the listing
\* showed at that index, and no other.
C36_ListedIndexIdentifiesRecord ==
    [][\A k \in 1..(IF Listed(ret) THEN Len(ret.out.results) ELSE 0) :
          LET e == ret.out.results[k]
              t == ret.args.team
              q == pending[t].rows
          IN  /\ (/\ IsCall(ret', "delete_pending_result")
                  /\ ret'.args.team = t /\ ret'.args.index = e.index)
                 => /\ Succeeded(ret')
                    /\ \E j \in 1..Len(q) :
                          Shows(e, q[j]) /\ pending'[t].rows = Without(q, j)
              /\ (/\ IsCall(ret', "add_admin_note_to_pending")
                  /\ ret'.args.team = t /\ ret'.args.index = e.index)
                 => /\ Succeeded(ret')
                    /\ \E j \in 1..Len(q) :
                          /\ Shows(e, q[j])
                          /\ Len(pending'[t].rows) = Len(q)
                          /\ pending'[t].rows[j].notes_to_admin # q[j].notes_to_admin
                          /\ \A i \in 1..Len(q) : i # j => pending'[t].rows[i] = q[i]]_vars

(***************************************************************************)
(* A submission served while an approval runs.  approve_pending_results    *)
(* takes no lock: it reads pending_results.csv once, replays the rows of   *)
(* the frame one by one and at the end removes the file or rewrites it     *)
(* from the frame; each action below is one of these stretches, and a      *)
(* submission of another request may be served between any two of them.    *)
(***************************************************************************)
InitLost ==
    /\ ledger = InitDB.ledger
    /\ results = InitDB.results
    /\ pending = InitDB.pending
    /\ deleted = InitDB.deleted
    /\ utc = 0
    /\ ret = [op |-> "init"]
    /\ df = <<>>
    /\ df_sorted = <<>>
    /\ pre = NoPre
    /\ cap = MaxResults
    /\ proc = [a |-> [pc |-> "idle"]]

\* lines 477-493: the existence check, read_csv and sort_values
ApproveRead(team) ==
    /\ proc["a"].pc = "idle"
    /\ IF ~pending[team].exists \/ pending[team].rows = <<>>
       THEN /\ ret' = [op |-> "approve_pending_results", args |-> [team |-> team],
                       out |-> [success |-> TRUE, processed_count |-> 0]]
            /\ UNCHANGED proc
       ELSE /\ \E frame \in SortedFrames(pending[team].rows) :
                  proc' = [a |-> [pc |-> "loop", team |-> team, df |-> pending[team].rows,
                                  df_sorted |-> frame, i |-> 1,
                                  processed_results |-> <<>>, failed_results |-> <<>>]]
            /\ ret' = [op |-> "approve_read", args |-> [team |-> team]]
    /\ UNCHANGED <<ledger, results, pending, deleted, utc, df, df_sorted, pre, cap>>

\* lines 495-558: one turn of the loop, on the files as they are now
ApproveReplay ==
    /\ proc["a"].pc = "loop"
    /\ proc["a"].i <= Len(proc["a"].df_sorted)
    /\ LET a == proc["a"]
           row == read_row(a.df_sorted[a.i])
           acc == ApproveRow([db |-> DB, processed_results |-> a.processed_results,
                              failed_results |-> a.failed_results],
                             a.team, row, ReplayRow(DB, utc, a.team, row))
       IN  /\ SetDB(acc.db)
           /\ proc' = [a |-> [a EXCEPT !.i = @ + 1,
                                       !.processed_results = acc.processed_results,
                                       !.failed_results = acc.failed_results]]
           /\ ret' = [op |-> "approve_replay", args |-> [team |-> a.team]]
    /\ UNCHANGED <<utc, df, df_sorted, pre, cap>>

\* lines 560-592: the file removed, or rewritten from the frame, and the return
ApproveFinish ==
    /\ proc["a"].pc = "loop"
    /\ proc["a"].i > Len(proc["a"].df_sorted)
    /\ LET a == proc["a"]
           out == FinishApproval(a.team, a.df_sorted,
                                 [db |-> DB, processed_results |-> a.processed_results,
                                  failed_results |-> a.failed_results])
       IN  /\ SetDB(out.db)
           /\ ret' = [op |-> "approve_pending_results", args |-> [team |-> a.team],
                      out |-> out.ret]
    /\ proc' = [a |-> [pc |-> "idle"]]
    /\ UNCHANGED <<utc, df, df_sorted, pre, cap>>

NextLost ==
    \/ \E c \in QueueSubmissions :
          SubmitForApproval("", "chess", c[1], c[2], c[3], c[4], c[5])
    \/ ApproveRead("")
    \/ ApproveReplay
    \/ ApproveFinish
    \/ Tick

SpecLost == InitLost /\ [][NextLost]_vars

\* C37: a pending record appended by a submission while an approval of the
\* same scope is running is not lost: when the approval returns, the record
\* is in the pending queue or committed to the results log.
C37_SubmissionSurvivesApproval ==
    [][(proc["a"].pc = "loop" /\ proc'["a"].pc = "idle")
       => LET t == proc["a"].team
              q == pending[t].rows
          IN  \A i \in (Len(proc["a"].df) + 1)..Len(q) :
                 \/ \E j \in 1..Len(pending'[t].rows) : pending'[t].rows[j] = q[i]
                 \/ \E j \in 1..Len(results'[t].rows) :
                        CommitOf(results'[t].rows[j], q[i])]_vars

====
